---- MODULE Spec2Model ----
(***************************************************************************)
(* Model of the validation engine of the Terraform best-practices server   *)
(* (pkg/hashicorp/tfdocs/validation.go).  A caller owns a bundle of named  *)
(* text files and calls ValidateConfiguration or SuggestImprovements on    *)
(* it.  The engine runs its validators in registration order; every        *)
(* validator scans the raw text of the files with regular expressions.     *)
(*                                                                         *)
(* Text is modelled as TLA+ strings, scanned character by character, so    *)
(* that the file-name tests (HasSuffix, exact map lookups) and the         *)
(* patterns are computed as the code computes them.                        *)
(***************************************************************************)
EXTENDS Integers, Sequences, FiniteSets, TLC

(***************************************************************************)
(* Bounds of the model.                                                    *)
(***************************************************************************)
\* the largest number of files in a bundle
MaxFiles == 4

(***************************************************************************)
(* strings: the Go standard-library functions the validators use.          *)
(***************************************************************************)
\* s[i-1:j] of Go, cut at the end of the string
Sub(s, i, j) ==
    IF i > j \/ i > Len(s) THEN ""
    ELSE SubSeq(s, i, IF j > Len(s) THEN Len(s) ELSE j)

At(s, i) == Sub(s, i, i)

HasSuffix(s, suffix) ==
    /\ Len(s) >= Len(suffix)
    /\ SubSeq(s, Len(s) - Len(suffix) + 1, Len(s)) = suffix

HasPrefix(s, prefix) ==
    /\ Len(s) >= Len(prefix)
    /\ SubSeq(s, 1, Len(prefix)) = prefix

\* strings.Contains
Contains(s, substr) ==
    \E i \in 1..(Len(s) - Len(substr) + 1) :
        SubSeq(s, i, i + Len(substr) - 1) = substr

Min(S) == CHOOSE m \in S : \A k \in S : m <= k

\* the first index >= i at which substr starts in s, 0 when there is none
IndexFrom(s, substr, i) ==
    LET at == { j \in i..(Len(s) - Len(substr) + 1) :
                    SubSeq(s, j, j + Len(substr) - 1) = substr }
    IN  IF at = {} THEN 0 ELSE Min(at)

UpperCase == "ABCDEFGHIJKLMNOPQRSTUVWXYZ"
LowerCase == "abcdefghijklmnopqrstuvwxyz"

ToLowerChar(c) ==
    LET i == IndexFrom(UpperCase, c, 1)
    IN  IF i = 0 THEN c ELSE At(LowerCase, i)

\* strings.ToLower (ASCII), halving the string to keep the evaluation shallow
RECURSIVE ToLower(_)
ToLower(s) ==
    IF Len(s) = 0 THEN ""
    ELSE IF Len(s) = 1 THEN ToLowerChar(s)
    ELSE LET m == Len(s) \div 2
         IN  ToLower(SubSeq(s, 1, m)) \o ToLower(SubSeq(s, m + 1, Len(s)))

\* strings.Split(s, sep) for a separator of one character (the code only
\* splits on "\n"): the pieces of the two halves, the last piece of the
\* left half continuing into the first piece of the right half
RECURSIVE Split(_, _)
Split(s, sep) ==
    IF Len(s) = 0 THEN << "" >>
    ELSE IF Len(s) = 1 THEN (IF s = sep THEN << "", "" >> ELSE << s >>)
    ELSE LET m == Len(s) \div 2
             l == Split(SubSeq(s, 1, m), sep)
             r == Split(SubSeq(s, m + 1, Len(s)), sep)
         IN  SubSeq(l, 1, Len(l) - 1) \o << l[Len(l)] \o r[1] >> \o Tail(r)

\* strings.Join
RECURSIVE Join(_, _)
Join(elems, sep) ==
    IF Len(elems) = 0 THEN ""
    ELSE IF Len(elems) = 1 THEN elems[1]
    ELSE elems[1] \o sep \o Join(Tail(elems), sep)

Digits == "0123456789"

\* fmt's %d of a non-negative int
RECURSIVE Itoa(_)
Itoa(n) ==
    IF n < 10 THEN At(Digits, n + 1)
    ELSE Itoa(n \div 10) \o At(Digits, (n % 10) + 1)

(***************************************************************************)
(* regexp: the patterns are matched as Go's RE2 engine matches them.  A    *)
(* matcher gives, for a start index, the index just after the match, or 0  *)
(* when the pattern does not match there.  None of the patterns below can  *)
(* match the empty string, and in each of them every greedy repetition is  *)
(* followed by a character it cannot consume, so the first (greedy) path   *)
(* is the only one.                                                        *)
(***************************************************************************)
\* the class \s of RE2: [\t\n\f\r ]
IsSpace(c) == c \in {" ", "\t", "\n", "\f", "\r"}

\* the index after the longest run of \s that starts at i
SkipSpaces(s, i) ==
    LET rest == { j \in i..Len(s) : ~IsSpace(At(s, j)) }
    IN  IF rest = {} THEN Len(s) + 1 ELSE Min(rest)

\* "[^"]+" at i: the index after the closing quote, or 0
QuotedEnd(s, i) ==
    IF At(s, i) # "\"" THEN 0
    ELSE LET q == IndexFrom(s, "\"", i + 1)
         IN  IF q = 0 \/ q = i + 1 THEN 0 ELSE q + 1

\* \s+"([^"]+)" at i (after a keyword): the index after the closing quote, or 0
SpacedQuotedEnd(s, i) ==
    LET k == SkipSpaces(s, i)
    IN  IF k = i THEN 0 ELSE QuotedEnd(s, k)

\* \s+{ at i: the index after the brace, or 0
SpacedBraceEnd(s, i) ==
    LET k == SkipSpaces(s, i)
    IN  IF k = i \/ At(s, k) # "{" THEN 0 ELSE k + 1

\* varPattern of NamingValidator: variable\s+"([^"]+)"\s+{
varPattern(s, i) ==
    IF Sub(s, i, i + 7) # "variable" THEN 0
    ELSE LET e1 == SpacedQuotedEnd(s, i + 8)
         IN  IF e1 = 0 THEN 0 ELSE SpacedBraceEnd(s, e1)

\* resPattern of NamingValidator: resource\s+"([^"]+)"\s+"([^"]+)"\s+{
resPattern(s, i) ==
    IF Sub(s, i, i + 7) # "resource" THEN 0
    ELSE LET e1 == SpacedQuotedEnd(s, i + 8)
         IN  IF e1 = 0 THEN 0
             ELSE LET e2 == SpacedQuotedEnd(s, e1)
                  IN  IF e2 = 0 THEN 0 ELSE SpacedBraceEnd(s, e2)

\* the text between the quotes of the n-th quoted group of a match that
\* starts with an 8-letter keyword at i
QuotedGroup(s, i, n) ==
    LET k1 == SkipSpaces(s, i + 8)
        e1 == QuotedEnd(s, k1)
        k2 == SkipSpaces(s, e1)
        e2 == QuotedEnd(s, k2)
    IN  IF n = 1 THEN Sub(s, k1 + 1, e1 - 2) ELSE Sub(s, k2 + 1, e2 - 2)

SecretWords == << "password", "secret", "key", "token", "credential" >>

\* secretPattern of SecurityValidator:
\*   (?i)(password|secret|key|token|credential)s?\s*=\s*"[^"]+"
secretPattern(s, i) ==
    LET ws == { w \in 1..Len(SecretWords) :
                  ToLower(Sub(s, i, i + Len(SecretWords[w]) - 1)) = SecretWords[w] }
    IN  IF ws = {} THEN 0
        ELSE LET j  == i + Len(SecretWords[Min(ws)])
                 j2 == IF ToLower(At(s, j)) = "s" THEN j + 1 ELSE j
                 k  == SkipSpaces(s, j2)
             IN  IF At(s, k) # "=" THEN 0
                 ELSE QuotedEnd(s, SkipSpaces(s, k + 1))

\* FindAllString: the leftmost matches, each search resuming where the
\* previous match ended; ends[i] is the matcher's answer at index i
RECURSIVE Leftmost(_, _)
Leftmost(ends, from) ==
    LET c == { i \in from..Len(ends) : ends[i] # 0 }
    IN  IF c = {} THEN << >>
        ELSE << [start |-> Min(c), end |-> ends[Min(c)]] >> \o Leftmost(ends, ends[Min(c)])

\* regexp.MustCompile panics when regexp/syntax rejects the pattern.  RE2 has
\* no look-around: a group that opens with (?= (?! (?<= or (?<! is the parse
\* error "invalid or unsupported Perl syntax".
MustCompilePanics(pattern) ==
    \E g \in {"(?=", "(?!", "(?<=", "(?<!"} : Contains(pattern, g)

\* the source text of sensitivePattern of SecurityValidator
sensitivePatternSource ==
    "variable\\s+\"([^\"]+)\"\\s+{(?:(?:.|\\n)(?!^\\}$))*sensitive\\s*=\\s*true"

(***************************************************************************)
(* The caller's bundles: file names and file texts.                        *)
(***************************************************************************)
Names == { "main.tf", "variables.tf", "outputs.tf", "README.md",
           "main", "vars", "output.tf" }

\* a resource block without credential-looking assignment
TfResource ==
    "\nresource \"aws_instance\" \"example\" {\n  ami           = \"ami-12345678\"\n  instance_type = \"t2.micro\"\n}\n"

\* a security group whose ingress block is open to the world, and a
\* hard-coded credential
TfInsecure ==
    "\nresource \"aws_security_group\" \"web_access\" {\n  ingress {\n    from_port   = 22\n    cidr_blocks = [\"0.0.0.0/0\"]\n  }\n}\npassword = \"secret123\"\n"

\* the texts that any file of a bundle may have
ScanTexts == { TfResource, TfInsecure }

\* the four texts of the complete module: a tagged resource, a described
\* variable, a described output and a README
TfTagged ==
    "\nresource \"aws_instance\" \"example\" {\n  ami           = \"ami-12345678\"\n  instance_type = \"t2.micro\"\n  tags = var.tags\n}\n"

TfVariables ==
    "\nvariable \"tags\" {\n  description = \"A map of tags to add to all resources\"\n  type        = map(string)\n  default     = {}\n}\n"

TfOutputs ==
    "\noutput \"instance_id\" {\n  description = \"The ID of the EC2 instance\"\n  value       = aws_instance.example.id\n}\n"

ReadmeText ==
    "\n# Example Module\n\nThis module creates an EC2 instance.\n"

\* the bundle with main.tf, variables.tf, outputs.tf and README.md, every
\* variable and output described and the resource tagged
CompleteModule ==
    [n \in {"main.tf", "variables.tf", "outputs.tf", "README.md"} |->
        CASE n = "main.tf" -> TfTagged
          [] n = "variables.tf" -> TfVariables
          [] n = "outputs.tf" -> TfOutputs
          [] OTHER -> ReadmeText]

\* the complete module with the names that hasVariablesTF, hasOutputsTF and
\* hasReadmeMD accept as well
PrefixedModule ==
    [n \in {"main.tf", "net_variables.tf", "net_outputs.tf", "readme.md"} |->
        CASE n = "main.tf" -> TfTagged
          [] n = "net_variables.tf" -> TfVariables
          [] n = "net_outputs.tf" -> TfOutputs
          [] OTHER -> ReadmeText]

\* a variable and an output without description
TfBareVariable ==
    "\nvariable \"region\" {\n  type = string\n}\n"

TfBareOutput ==
    "\noutput \"instance_id\" {\n  value = aws_instance.example.id\n}\n"

UndescribedModule ==
    [n \in {"main.tf", "variables.tf", "outputs.tf"} |->
        CASE n = "main.tf" -> TfTagged
          [] n = "variables.tf" -> TfBareVariable
          [] OTHER -> TfBareOutput]

\* n copies of s, one after the other
RECURSIVE Repeat(_, _)
Repeat(s, n) ==
    IF n = 0 THEN ""
    ELSE LET half == Repeat(s, n \div 2)
         IN  IF n % 2 = 0 THEN half \o half ELSE half \o half \o s

\* files around the limit of 500 lines: 500 lines of which the last ends
\* with a newline, 500 lines of which the last does not, and 501 lines
Lines500Newline == Repeat("\n", 500)
Lines500 == Repeat("\n", 499) \o "#"
Lines501 == Repeat("\n", 500) \o "#"

LargeModule ==
    [n \in {"main.tf", "variables.tf", "outputs.tf"} |->
        CASE n = "main.tf" -> Lines500Newline
          [] n = "variables.tf" -> Lines500
          [] OTHER -> Lines501]

\* the bundles of single cases
CaseBundles == { CompleteModule, PrefixedModule, UndescribedModule, LargeModule }

\* the names and the texts of the files of all bundles
FileNames == Names \cup UNION { DOMAIN b : b \in CaseBundles }
Contents == ScanTexts \cup UNION { { b[n] : n \in DOMAIN b } : b \in CaseBundles }

\* TerraformConfiguration.Files: a map from file name to text
Bundles ==
    UNION { [S -> ScanTexts] : S \in { T \in SUBSET Names : Cardinality(T) <= MaxFiles } }
        \cup CaseBundles

\* an iteration of "for name, content := range config.Files": Go leaves the
\* order of a map iteration unspecified, so any order of the keys may occur
RECURSIVE Orders(_)
Orders(S) ==
    IF S = {} THEN { << >> }
    ELSE UNION { { << n >> \o o : o \in Orders(S \ {n}) } : n \in S }

\* every loop over the files skips, as its first test, the files whose name
\* does not end in .tf, so an iteration is told by the order of the others
RangeOrders ==
    [S \in { T \in SUBSET Names : Cardinality(T) <= MaxFiles }
              \cup { DOMAIN b : b \in CaseBundles }
        |-> Orders({ n \in S : HasSuffix(n, ".tf") })]

\* the scans of each text, evaluated once per text
LineCount == [c \in Contents |-> Len(Split(c, "\n"))]
varMatches == [c \in Contents |-> Leftmost([i \in 1..Len(c) |-> varPattern(c, i)], 1)]
resMatches == [c \in Contents |-> Leftmost([i \in 1..Len(c) |-> resPattern(c, i)], 1)]
secretMatches == [c \in Contents |-> Leftmost([i \in 1..Len(c) |-> secretPattern(c, i)], 1)]

(***************************************************************************)
(* ValidationIssue, ValidationResult                                       *)
(***************************************************************************)
SeverityError == "error"
SeverityWarning == "warning"
SeverityInfo == "info"

CategoryStructure == "structure"
CategoryNaming == "naming"
CategorySecurity == "security"
CategoryPerformance == "performance"
CategoryMaintenance == "maintenance"
CategoryDocumentation == "documentation"

\* a ValidationIssue (Line is never set by any validator and is left out)
ValidationIssue(message, severity, category, file, bestPractice, suggestion) ==
    [ Message |-> message, Severity |-> severity, Category |-> category,
      File |-> file, BestPractice |-> bestPractice, Suggestion |-> suggestion ]

\* the issues of a loop over the files, in the order of the iteration;
\* perFile[name][content] are the issues the body of the loop adds for a file
RECURSIVE ForEachFile(_, _, _)
ForEachFile(perFile, files, order) ==
    IF order = << >> THEN << >>
    ELSE perFile[Head(order)][files[Head(order)]] \o ForEachFile(perFile, files, Tail(order))

\* the issues of a loop that appends a list of issues in each iteration
RECURSIVE Flatten(_)
Flatten(lists) ==
    IF lists = << >> THEN << >> ELSE Head(lists) \o Flatten(Tail(lists))

(***************************************************************************)
(* Helper functions: which standard files a bundle has.                    *)
(***************************************************************************)
hasFile(files, name) == name \in DOMAIN files

hasMainTF(files) == hasFile(files, "main.tf")

hasVariablesTF(files) ==
    \E name \in DOMAIN files :
        name = "variables.tf" \/ HasSuffix(name, "_variables.tf")

hasOutputsTF(files) ==
    \E name \in DOMAIN files :
        name = "outputs.tf" \/ HasSuffix(name, "_outputs.tf")

hasReadmeMD(files) == "README.md" \in DOMAIN files \/ "readme.md" \in DOMAIN files

(***************************************************************************)
(* StructureValidator.Validate                                             *)
(***************************************************************************)
MissingMainTF ==
    ValidationIssue("Missing main.tf file", SeverityError, CategoryStructure, "",
        "Include a main.tf file with core resource definitions",
        "Create a main.tf file with core resource definitions")

MissingVariablesTF ==
    ValidationIssue("Missing variables.tf file", SeverityWarning, CategoryStructure, "",
        "Include a variables.tf file for input variable definitions",
        "Create a variables.tf file with input variable definitions")

MissingOutputsTF ==
    ValidationIssue("Missing outputs.tf file", SeverityWarning, CategoryStructure, "",
        "Include an outputs.tf file for output definitions",
        "Create an outputs.tf file with output definitions")

\* the largest number of lines of a file that is not reported as too large
MaxFileLines == 500

\* the monolithic-file check of one file
TooLarge(name, content) ==
    IF HasSuffix(name, ".tf") /\ LineCount[content] > MaxFileLines
    THEN << ValidationIssue(
              "File " \o name \o " is too large (" \o Itoa(LineCount[content])
                  \o " lines). Consider splitting it into multiple files.",
              SeverityWarning, CategoryMaintenance, name,
              "Keep Terraform files under 500 lines for better maintainability",
              "Split the file into multiple logical files based on resource types or functionality") >>
    ELSE << >>

\* the body of the loop, evaluated once per name and text
tooLarge == [n \in FileNames |-> [c \in Contents |-> TooLarge(n, c)]]

moduleFiles == << "main.tf", "variables.tf", "outputs.tf", "README.md" >>

\* the standard files that are not keys of the bundle, in the order of moduleFiles
missingFiles(files) ==
    SelectSeq(moduleFiles, LAMBDA file : ~hasFile(files, file))

MissingStandardFiles(files) ==
    ValidationIssue(
        "Module is missing standard files: " \o Join(missingFiles(files), ", "),
        SeverityInfo, CategoryStructure, "",
        "Follow standard module structure with main.tf, variables.tf, outputs.tf, and README.md",
        "Add the missing files to follow the standard module structure")

\* order: the order in which the range over config.Files yields the files
StructureValidate(files, order) ==
       (IF ~hasMainTF(files) THEN << MissingMainTF >> ELSE << >>)
    \o (IF ~hasVariablesTF(files) THEN << MissingVariablesTF >> ELSE << >>)
    \o (IF ~hasOutputsTF(files) THEN << MissingOutputsTF >> ELSE << >>)
    \o ForEachFile(tooLarge, files, order)
    \o (IF Len(missingFiles(files)) > 0 THEN << MissingStandardFiles(files) >> ELSE << >>)

(***************************************************************************)
(* NamingValidator.Validate                                                *)
(***************************************************************************)
\* the issues of one match of varPattern in a file
VariableNameIssues(name, varName) ==
       (IF Contains(varName, "-")
        THEN << ValidationIssue(
                  "Variable name '" \o varName \o "' uses hyphens instead of underscores",
                  SeverityWarning, CategoryNaming, name,
                  "Use underscores, not hyphens, in variable names",
                  "Rename variable '" \o varName \o "' to use underscores instead of hyphens") >>
        ELSE << >>)
    \o (IF ToLower(varName) # varName
        THEN << ValidationIssue(
                  "Variable name '" \o varName \o "' uses uppercase letters",
                  SeverityInfo, CategoryNaming, name,
                  "Use lowercase letters in variable names",
                  "Rename variable '" \o varName \o "' to use all lowercase letters") >>
        ELSE << >>)

\* the issues of one match of resPattern in a file
ResourceNameIssues(name, resName) ==
    IF Contains(resName, "_") /\ ~Contains(resName, "-") THEN << >>
    ELSE << ValidationIssue(
              "Resource name '" \o resName \o "' doesn't follow naming convention",
              SeverityInfo, CategoryNaming, name,
              "Use underscores in resource names for readability",
              "Rename resource '" \o resName \o "' to use underscores") >>

\* the first loop body: the variable names of one file, in match order
VariableNames(name, content) ==
    IF HasSuffix(name, ".tf")
    THEN LET m == varMatches[content]
         IN  Flatten([k \in 1..Len(m) |->
                 VariableNameIssues(name, QuotedGroup(content, m[k].start, 1))])
    ELSE << >>

\* the second loop body: the resource names of one file, in match order
ResourceNames(name, content) ==
    IF HasSuffix(name, ".tf")
    THEN LET m == resMatches[content]
         IN  Flatten([k \in 1..Len(m) |->
                 ResourceNameIssues(name, QuotedGroup(content, m[k].start, 2))])
    ELSE << >>

variableNames == [n \in FileNames |-> [c \in Contents |-> VariableNames(n, c)]]
resourceNames == [n \in FileNames |-> [c \in Contents |-> ResourceNames(n, c)]]

\* the first loop of NamingValidator.Validate; order: the order of its range
NamingVariables(files, order) == ForEachFile(variableNames, files, order)

\* the second loop of NamingValidator.Validate
NamingResources(files, order) == ForEachFile(resourceNames, files, order)

(***************************************************************************)
(* SecurityValidator.Validate, up to the compilation of sensitivePattern   *)
(***************************************************************************)
\* the hard-coded credentials of one file: one issue per match of secretPattern
\* HardcodedSecrets with a path in File instead of the name of the file
HardcodedSecretsAtPath(name, content) ==
    IF HasSuffix(name, ".tf")
    THEN LET m == secretMatches[content]
         IN  [k \in 1..Len(m) |->
                ValidationIssue(
                    "Possible hardcoded secret found: " \o Sub(content, m[k].start, m[k].end - 1),
                    SeverityError, CategorySecurity, "./" \o name,
                    "Never hardcode sensitive values in Terraform configuration",
                    "Use variables with sensitive = true or integrate with a secrets management solution")]
    ELSE << >>

\* the scan of a file for hard-coded credentials: an error for each match
HardcodedSecrets(name, content) ==
    IF HasSuffix(name, ".tf")
    THEN LET m == secretMatches[content]
         IN  [k \in 1..Len(m) |->
                ValidationIssue(
                    "Possible hardcoded secret found: " \o Sub(content, m[k].start, m[k].end - 1),
                    SeverityError, CategorySecurity, name,
                    "Never hardcode sensitive values in Terraform configuration",
                    "Use variables with sensitive = true or integrate with a secrets management solution")]
    ELSE << >>

hardcodedSecrets == [n \in FileNames |-> [c \in Contents |-> HardcodedSecrets(n, c)]]

\* the first loop of SecurityValidator.Validate
SecurityCredentials(files, order) == ForEachFile(hardcodedSecrets, files, order)

(***************************************************************************)
(* The engine and one caller.                                              *)
(***************************************************************************)
VARIABLES
    Files,          \* config.Files: the caller's bundle
    before,         \* the bundle as it was when the running call started
    op,             \* the method the caller is in, or "none"
    pc,             \* where the call is: the validator about to run, ...
    result,         \* the ValidationResult that ValidateConfiguration builds
    ran,            \* the validators that have returned, with what they returned
    issues,         \* the local issues of the validator that is running
    improvements,   \* the map that SuggestImprovements builds
    last            \* the call that ended last: how it ended, with which findings

\* one engine that several callers use at the same time, each with its own
\* bundle
VARIABLES
    engineValidators,   \* e.validators, the one field of the engine the calls read
    cFiles,             \* cFiles[c]: the bundle of caller c
    cop,                \* cop[c]: the method caller c is in or was in last, or "none"
    cpc,                \* cpc[c]: where the call of caller c is
    cresult,            \* cresult[c]: the result that the call of caller c builds
    cissues             \* cissues[c]: the local issues of the validator caller c runs

\* the server: the tool registry, the document indexer, the pattern
\* repository, the two index files, the call of Server.Initialize and the
\* goroutines that handle requests or read
VARIABLES
    tools,      \* s.tools of the MCP server: tool name -> tool
    mu,         \* s.mu, the lock of the tool registry
    resources,  \* i.resources of the indexer: URI -> resource
    imutex,     \* i.mutex, the lock of the indexer
    patterns,   \* r.patterns of the pattern repository: id -> pattern
    pmutex,     \* r.mutex, the lock of the pattern repository
    disk,       \* index.json of the documents, index.json and directories of the patterns
    ipc,        \* where the call of Server.Initialize is
    ik,         \* the index of the loop that the call of Server.Initialize is in
    iloaded,    \* what the call of Server.Initialize has read from an index file
    inits,      \* the number of calls of Server.Initialize that have returned
    first,      \* what the server held when the first Server.Initialize returned
    spc,        \* spc[p]: where goroutine p is
    sreq,       \* sreq[p]: the request that goroutine p handles
    stool,      \* stool[p]: the tool that goroutine p has looked up
    scall,      \* scall[p]: the read that goroutine p makes
    sres,       \* sres[p]: what the read of goroutine p has returned
    sresp       \* sresp[p]: the response of goroutine p

engineVars == << Files, before, op, pc, result, ran, issues, improvements, last >>
concVars == << engineValidators, cFiles, cop, cpc, cresult, cissues >>
initVars == << ipc, ik, iloaded, inits, first >>
storeVars == << tools, mu, resources, imutex, patterns, pmutex, disk >>
clientVars == << spc, sreq, stool, scall, sres, sresp >>
serverVars == << storeVars, initVars, clientVars >>

\* initializeDefaultDocs of the indexer: its fetch workers, its channels and
\* the goroutine that closes them
VARIABLES
    wpc,        \* wpc[k]: where the worker of authority source k is
    wg,         \* the counter of the sync.WaitGroup
    chans,      \* the channels: how often each was closed, what errCh holds
    kpc         \* where the goroutine that closes the channels is

fetchVars == << wpc, wg, chans, kpc >>

\* what the steps of the single caller leave alone
outsideEngine == << concVars, serverVars, fetchVars >>

\* what the steps of the concurrent callers leave alone
outsideConc == << engineVars, serverVars, fetchVars >>

\* what the steps of the server leave alone
outsideServer == << engineVars, concVars, fetchVars >>

\* what the steps of initializeDefaultDocs leave alone
outsideFetch == << engineVars, concVars >>

vars == << engineVars, concVars, serverVars, fetchVars >>

\* engine.validators, as NewValidationEngine registers them
validators ==
    << "StructureValidator", "NamingValidator", "SecurityValidator",
       "DocumentationValidator", "ModuleValidator", "ResourceValidator" >>

EmptyMap == [n \in {} |-> ""]

\* the result of a call that has not added anything yet
EmptyResult(fileCount) ==
    [Issues |-> << >>, FileCount |-> fileCount, ErrorCount |-> 0,
     WarnCount |-> 0, InfoCount |-> 0]

(***************************************************************************)
(* The data of the server: locks, patterns, documents, tools.              *)
(***************************************************************************)
\* a sync.RWMutex: whether a writer holds it, and the readers that hold it
\* (a writer that waits does not keep new readers out here, as it does in
\* Go: the readers of the model can do all that the readers of Go can do)
FreeMutex == [writer |-> FALSE, readers |-> {}]

\* Lock returns when no writer and no reader holds the lock
CanLock(m) == ~m.writer /\ m.readers = {}

\* RLock returns when no writer holds the lock
CanRLock(m) == ~m.writer

\* a Pattern; Files are the names of its files
Pattern(id, name, description, category, provider, complexity, tags, files) ==
    [ ID |-> id, Name |-> name, Description |-> description, Category |-> category,
      Provider |-> provider, Complexity |-> complexity, Tags |-> tags, Files |-> files ]

StandardFiles == { "main.tf", "variables.tf", "outputs.tf", "README.md" }

\* defaultPatterns of initializeDefaultPatterns
defaultPatterns ==
    << Pattern("aws-vpc-basic", "AWS VPC Basic",
               "A basic AWS VPC with public and private subnets",
               "networking", "aws", "basic", << "vpc", "networking", "aws" >>, StandardFiles),
       Pattern("aws-ec2-web-server", "AWS EC2 Web Server",
               "EC2 instance with web server configuration",
               "compute", "aws", "intermediate", << "ec2", "web", "compute", "aws" >>, StandardFiles),
       Pattern("azure-vnet-basic", "Azure VNet Basic",
               "A basic Azure Virtual Network with subnets",
               "networking", "azure", "basic", << "vnet", "networking", "azure" >>, StandardFiles),
       Pattern("gcp-vpc-basic", "GCP VPC Basic",
               "A basic GCP VPC with subnets",
               "networking", "gcp", "basic", << "vpc", "networking", "gcp" >>, StandardFiles),
       Pattern("terraform-module-structure", "Terraform Module Structure",
               "Standard structure for a Terraform module",
               "application", "generic", "basic", << "module", "structure", "template" >>,
               StandardFiles \cup { ".gitignore" }) >>

PatternIDs == { defaultPatterns[k].ID : k \in DOMAIN defaultPatterns }

\* a map without keys (make(map[string]...))
NoEntries == [k \in {} |-> 0]

\* m[key] = value on a Go map
Store(m, key, value) ==
    [k \in DOMAIN m \cup {key} |-> IF k = key THEN value ELSE m[k]]

\* a PatternFilter: Category, Provider and Complexity are pointers, << >>
\* when nil and << v >> when they point to v
PatternFilter(category, provider, complexity, tags, query) ==
    [ Category |-> category, Provider |-> provider, Complexity |-> complexity,
      Tags |-> tags, Query |-> query ]

NoFilter == PatternFilter(<< >>, << >>, << >>, << >>, "")

\* strings.EqualFold (ASCII)
EqualFold(a, b) == ToLower(a) = ToLower(b)

\* TagsMatch with tags compared by == in the place of strings.EqualFold
TagsMatchExact(filterTags, patternTags) ==
    \E i \in 1..Len(filterTags) : \E j \in 1..Len(patternTags) :
        filterTags[i] = patternTags[j]

\* the loops of FindPatterns over filter.Tags and pattern.Tags: matches
\* becomes true at the first pair of tags that are equal under folding
TagsMatch(filterTags, patternTags) ==
    \E i \in 1..Len(filterTags) : \E j \in 1..Len(patternTags) :
        EqualFold(filterTags[i], patternTags[j])

\* the body of the loop of FindPatterns reaches a continue
Skipped(pattern, filter) ==
    \/ filter.Category # << >> /\ pattern.Category # filter.Category[1]
    \/ filter.Provider # << >> /\ pattern.Provider # filter.Provider[1]
    \/ filter.Complexity # << >> /\ pattern.Complexity # filter.Complexity[1]
    \/ Len(filter.Tags) > 0 /\ ~TagsMatch(filter.Tags, pattern.Tags)
    \/ /\ filter.Query # ""
       /\ ~Contains(ToLower(pattern.Name), ToLower(filter.Query))
       /\ ~Contains(ToLower(pattern.Description), ToLower(filter.Query))
       /\ ~Contains(ToLower(pattern.ID), ToLower(filter.Query))

\* FindPatterns: the patterns that the loop appends, in the order in which
\* the range over r.patterns yields them (given by their ids)
FindPatterns(stored, filter, order) ==
    SelectSeq(order, LAMBDA id : ~Skipped(stored[id], filter))

\* a BestPracticeDoc and a ModuleStructureDoc, by the fields the lookups
\* read
BestPracticeDoc(id, title, category, provider, tags) ==
    [ ID |-> id, Title |-> title, Category |-> category, Provider |-> provider,
      Tags |-> tags ]

ModuleStructureDoc(type, provider) ==
    [ Type |-> type, Provider |-> provider ]

ResourceTypeBestPractice == "bestpractice"
ResourceTypeModuleStructure == "modulestructure"

\* json.Marshal of a document: the compact text of the document
Marshal(doc) == [doc |-> doc, form |-> "compact"]

\* json.MarshalIndent re-indents a json.RawMessage that it embeds
Indent(content) == [content EXCEPT !.form = "indented"]

\* json.Unmarshal of a content into a document: the layout does not count
Unmarshal(content) == content.doc

\* a Resource of the indexer
Resource(uri, type, content) == [URI |-> uri, Type |-> type, Content |-> content]

\* the practices of addDefaultBestPractices
defaultBestPractices ==
    << BestPracticeDoc("module-structure", "Standard Module Structure", "structure", "",
                       << "modules", "structure", "organization" >>),
       BestPracticeDoc("variables-documentation", "Document Variables with Description",
                       "documentation", "", << "variables", "documentation" >>),
       BestPracticeDoc("consistent-tagging", "Consistent Resource Tagging", "organization", "",
                       << "tagging", "organization" >>),
       BestPracticeDoc("security-group-rules", "Security Group Rules", "security", "aws",
                       << "security", "aws" >>),
       BestPracticeDoc("version-pinning", "Version Pinning", "stability", "",
                       << "versioning", "stability" >>) >>

\* the structures of addDefaultModuleStructures
defaultModuleStructures ==
    << ModuleStructureDoc("basic", ""), ModuleStructureDoc("aws", "aws") >>

BestPracticeURI(practice) ==
    ResourceTypeBestPractice \o ":" \o practice.Category \o "/" \o practice.ID

\* the first structure is stored under generic, the second under its provider
ModuleStructureURI(structure) ==
    ResourceTypeModuleStructure \o ":"
        \o (IF structure.Provider = "" THEN "generic" ELSE structure.Provider)
        \o "/" \o structure.Type

\* addDefaultBestPractices: the map with the five practices stored
addDefaultBestPractices(m) ==
    LET uris == { BestPracticeURI(defaultBestPractices[k]) : k \in DOMAIN defaultBestPractices }
        of(u) == CHOOSE k \in DOMAIN defaultBestPractices :
                    BestPracticeURI(defaultBestPractices[k]) = u
    IN  [u \in DOMAIN m \cup uris |->
            IF u \in uris
            THEN Resource(u, ResourceTypeBestPractice, Marshal(defaultBestPractices[of(u)]))
            ELSE m[u]]

\* addDefaultModuleStructures: the map with the two structures stored
addDefaultModuleStructures(m) ==
    LET uris == { ModuleStructureURI(defaultModuleStructures[k]) :
                    k \in DOMAIN defaultModuleStructures }
        of(u) == CHOOSE k \in DOMAIN defaultModuleStructures :
                    ModuleStructureURI(defaultModuleStructures[k]) = u
    IN  [u \in DOMAIN m \cup uris |->
            IF u \in uris
            THEN Resource(u, ResourceTypeModuleStructure, Marshal(defaultModuleStructures[of(u)]))
            ELSE m[u]]

\* json.MarshalIndent(i.resources): the text of index.json
SaveIndex(m) == [u \in DOMAIN m |-> [m[u] EXCEPT !.Content = Indent(@)]]

\* the tools of registerTools, in the order of their registration
toolNames ==
    << "GetBestPractices", "GetModuleStructure", "GetPatternTemplate",
       "ValidateConfiguration", "SuggestImprovements" >>

\* the disk before the first Initialize: no index.json of the documents, no
\* index.json and no directories of the patterns
EmptyDisk == [docIndex |-> << >>, patternIndex |-> << >>, patternDirs |-> NoEntries]

\* the reads of the indexer and of the pattern repository
indexerReads == { "GetBestPractices", "GetModuleStructures", "GetResource", "ListResources" }
patternReads == { "GetPatternByID", "FindPatterns" }

\* a read: its function and its arguments (those that the function does
\* not take are empty): the id of GetPatternByID, the URI of GetResource or
\* the prefix of ListResources; the category and the provider of
\* GetBestPractices and GetModuleStructures, called with no topic, keywords
\* or type; the filter of FindPatterns
Call(fn, id, category, provider, filter) ==
    [fn |-> fn, id |-> id, category |-> category, provider |-> provider, filter |-> filter]
NoCall == Call("", "", "", "", NoFilter)

\* what a read returns: whether it returns an error, with the text of the
\* error, and the ids, the URIs or the content that it returns
Return(err, items) == [err |-> err, items |-> items, msg |-> ""]
\* the return of fmt.Errorf(...)
Fail(msg) == [err |-> TRUE, items |-> << >>, msg |-> msg]
NoReturn == Return(FALSE, << >>)

\* a Request: Arguments are a JSON object, of which the fields id, category
\* and provider are read ("" when the object does not have them), or a JSON
\* string, which no argument struct can be decoded from
Request(id, tool, arguments) == [ID |-> id, Tool |-> tool, Arguments |-> arguments]
Arguments(json, id, category, provider) ==
    [json |-> json, id |-> id, category |-> category, provider |-> provider]
NoRequest == Request("", "", Arguments("", "", "", ""))

\* a Response
Response(id, status, code, payload) ==
    [ID |-> id, Status |-> status, Code |-> code, Message |-> "", Result |-> payload]
\* a Response with an ErrorDetail
ErrorResponse(id, code, message) ==
    [ID |-> id, Status |-> "error", Code |-> code, Message |-> message, Result |-> << >>]
NoResponse == Response("", "", "", << >>)

\* what the server held when the first Initialize returned
NoSnapshot == [tools |-> {}, docs |-> NoEntries, patterns |-> NoEntries]

\* the server as NewServer leaves it, with no goroutine
\* the channels of initializeDefaultDocs when they are made: none closed,
\* errCh empty, no error received
NoChannels ==
    [bestPractices |-> 0, moduleStructures |-> 0, errCh |-> 0, queue |-> << >>, errs |-> << >>]

\* initializeDefaultDocs is not running
FetchParked ==
    /\ wpc = << >> /\ wg = 0 /\ chans = NoChannels /\ kpc = "none"

ServerParked ==
    /\ FetchParked
    /\ tools = NoEntries /\ mu = FreeMutex
    /\ resources = NoEntries /\ imutex = FreeMutex
    /\ patterns = NoEntries /\ pmutex = FreeMutex
    /\ disk = EmptyDisk
    /\ ipc = "idle" /\ ik = 0 /\ iloaded = << >> /\ inits = 0 /\ first = NoSnapshot
    /\ spc = NoEntries /\ sreq = NoEntries /\ stool = NoEntries
    /\ scall = NoEntries /\ sres = NoEntries /\ sresp = NoEntries

\* the callers of the shared engine
MaxCallers == 2
Callers == 1..MaxCallers

\* no caller of the shared engine has called yet
ConcParked ==
    /\ engineValidators = validators
    /\ cFiles = [c \in Callers |-> EmptyMap]
    /\ cop = [c \in Callers |-> "none"]
    /\ cpc = [c \in Callers |-> "idle"]
    /\ cresult = [c \in Callers |-> EmptyResult(0)]
    /\ cissues = [c \in Callers |-> << >>]

\* the single caller has no bundle and has not called
EngineParked ==
    /\ Files = EmptyMap
    /\ before = EmptyMap
    /\ op = "none"
    /\ pc = "idle"
    /\ result = EmptyResult(0)
    /\ ran = << >>
    /\ issues = << >>
    /\ improvements = EmptyMap
    /\ last = [op |-> "none", outcome |-> "none", Issues |-> << >>]

Init ==
    /\ ConcParked
    /\ ServerParked
    /\ Files \in Bundles
    /\ before = Files
    /\ op = "none"
    /\ pc = "idle"
    /\ result = EmptyResult(0)
    /\ ran = << >>
    /\ issues = << >>
    /\ improvements = EmptyMap
    /\ last = [op |-> "none", outcome |-> "none", Issues |-> << >>]

\* the start of ValidateConfiguration: an empty result with the file count
BeginValidation ==
    /\ result' = EmptyResult(Cardinality(DOMAIN Files))
    /\ ran' = << >>
    /\ issues' = << >>
    /\ pc' = validators[1]

\* a caller calls engine.ValidateConfiguration(config)
ValidateConfiguration ==
    /\ pc = "idle"
    /\ op' = "ValidateConfiguration"
    /\ before' = Files
    /\ BeginValidation
    /\ UNCHANGED << Files, improvements, last >>
    /\ UNCHANGED outsideEngine

\* a caller calls engine.SuggestImprovements(config), which makes its map
\* and calls ValidateConfiguration
SuggestImprovements ==
    /\ pc = "idle"
    /\ op' = "SuggestImprovements"
    /\ before' = Files
    /\ improvements' = EmptyMap
    /\ BeginValidation
    /\ UNCHANGED << Files, last >>
    /\ UNCHANGED outsideEngine

\* RunStructure with a validator that drops the files it does not scan from
\* the map it was given
RunStructureInPlace ==
    /\ pc = validators[1]
    /\ \E order \in RangeOrders[DOMAIN Files] :
         LET found == StructureValidate(Files, order)
         IN  /\ result' = [result EXCEPT !.Issues = @ \o found]
             /\ ran' = Append(ran, [name |-> "StructureValidator", issues |-> found])
    /\ Files' = [n \in { m \in DOMAIN Files : HasSuffix(m, ".tf") } |-> Files[n]]
    /\ pc' = validators[2]
    /\ UNCHANGED << before, op, issues, improvements, last >>
    /\ UNCHANGED outsideEngine

\* the loop of ValidateConfiguration runs validators[1]
RunStructure ==
    /\ pc = validators[1]
    /\ \E order \in RangeOrders[DOMAIN Files] :
         LET found == StructureValidate(Files, order)
         IN  /\ result' = [result EXCEPT !.Issues = @ \o found]
             /\ ran' = Append(ran, [name |-> "StructureValidator", issues |-> found])
    /\ pc' = validators[2]
    /\ UNCHANGED << Files, before, op, issues, improvements, last >>
    /\ UNCHANGED outsideEngine

\* the loop of ValidateConfiguration runs validators[2]: the first loop of
\* NamingValidator, over the variable names
RunNaming ==
    /\ pc = validators[2]
    /\ \E order \in RangeOrders[DOMAIN Files] :
         issues' = NamingVariables(Files, order)
    /\ pc' = "NamingValidator:resources"
    /\ UNCHANGED << Files, before, op, result, ran, improvements, last >>
    /\ UNCHANGED outsideEngine

\* the second loop of NamingValidator, over the resource names, and its return
RunNamingResources ==
    /\ pc = "NamingValidator:resources"
    /\ \E order \in RangeOrders[DOMAIN Files] :
         LET found == issues \o NamingResources(Files, order)
         IN  /\ result' = [result EXCEPT !.Issues = @ \o found]
             /\ ran' = Append(ran, [name |-> "NamingValidator", issues |-> found])
    /\ issues' = << >>
    /\ pc' = validators[3]
    /\ UNCHANGED << Files, before, op, improvements, last >>
    /\ UNCHANGED outsideEngine

\* the loop of ValidateConfiguration runs validators[3]: SecurityValidator
\* scans the files for hard-coded credentials and then compiles
\* sensitivePattern, which panics, so that the validator never returns
RunSecurity ==
    /\ pc = validators[3]
    /\ \E order \in RangeOrders[DOMAIN Files] :
         issues' = SecurityCredentials(Files, order)
    /\ pc' = IF MustCompilePanics(sensitivePatternSource)
             THEN "panicked" ELSE "SecurityValidator:353"
    /\ UNCHANGED << Files, before, op, result, ran, improvements, last >>
    /\ UNCHANGED outsideEngine

\* the panic leaves ValidateConfiguration (and SuggestImprovements, when it
\* is the caller): neither recovers, no value is returned, and what they
\* had built is dropped with their frames
Unwind ==
    /\ pc = "panicked"
    /\ last' = [op |-> op, outcome |-> "panic", Issues |-> result.Issues]
    /\ pc' = "idle"
    /\ op' = "none"
    /\ result' = EmptyResult(0)
    /\ ran' = << >>
    /\ issues' = << >>
    /\ improvements' = EmptyMap
    /\ UNCHANGED << Files, before >>
    /\ UNCHANGED outsideEngine

Next ==
    \/ ValidateConfiguration
    \/ SuggestImprovements
    \/ RunStructure
    \/ RunNaming
    \/ RunNamingResources
    \/ RunSecurity
    \/ Unwind

Spec == Init /\ [][Next]_vars

(***************************************************************************)
(* One engine, several callers at the same time.  Each caller keeps the    *)
(* locals of its own call; the callers share the engine, whose only field  *)
(* that a call reads is the list of validators.                            *)
(***************************************************************************)
\* the bundles of the concurrent callers
ConcBundles ==
    { [n \in {"main.tf"} |-> TfResource],
      [n \in {"main.tf", "output.tf"} |-> TfResource],
      [n \in {"variables.tf"} |-> TfInsecure] }

ConcInit ==
    /\ EngineParked
    /\ ServerParked
    /\ engineValidators = validators
    /\ cFiles \in [Callers -> ConcBundles]
    /\ cop = [c \in Callers |-> "none"]
    /\ cpc = [c \in Callers |-> "idle"]
    /\ cresult = [c \in Callers |-> EmptyResult(0)]
    /\ cissues = [c \in Callers |-> << >>]

\* the start of ValidateConfiguration in the call of caller c
ConcBeginValidation(c) ==
    /\ cresult' = [cresult EXCEPT ![c] = EmptyResult(Cardinality(DOMAIN cFiles[c]))]
    /\ cissues' = [cissues EXCEPT ![c] = << >>]
    /\ cpc' = [cpc EXCEPT ![c] = engineValidators[1]]

\* caller c calls engine.ValidateConfiguration(config)
ConcValidateConfiguration(c) ==
    /\ cpc[c] = "idle"
    /\ cop' = [cop EXCEPT ![c] = "ValidateConfiguration"]
    /\ ConcBeginValidation(c)
    /\ UNCHANGED << engineValidators, cFiles >>
    /\ UNCHANGED outsideConc

\* caller c calls engine.SuggestImprovements(config), which makes its map
\* and calls ValidateConfiguration
ConcSuggestImprovements(c) ==
    /\ cpc[c] = "idle"
    /\ cop' = [cop EXCEPT ![c] = "SuggestImprovements"]
    /\ ConcBeginValidation(c)
    /\ UNCHANGED << engineValidators, cFiles >>
    /\ UNCHANGED outsideConc

\* the call of caller c runs StructureValidator
ConcRunStructure(c) ==
    /\ cpc[c] = "StructureValidator"
    /\ \E order \in RangeOrders[DOMAIN cFiles[c]] :
         cresult' = [cresult EXCEPT ![c].Issues = @ \o StructureValidate(cFiles[c], order)]
    /\ cpc' = [cpc EXCEPT ![c] = engineValidators[2]]
    /\ UNCHANGED << engineValidators, cFiles, cop, cissues >>
    /\ UNCHANGED outsideConc

\* the call of caller c runs the first loop of NamingValidator
ConcRunNaming(c) ==
    /\ cpc[c] = "NamingValidator"
    /\ \E order \in RangeOrders[DOMAIN cFiles[c]] :
         cissues' = [cissues EXCEPT ![c] = NamingVariables(cFiles[c], order)]
    /\ cpc' = [cpc EXCEPT ![c] = "NamingValidator:resources"]
    /\ UNCHANGED << engineValidators, cFiles, cop, cresult >>
    /\ UNCHANGED outsideConc

\* the call of caller c runs the second loop of NamingValidator, which
\* returns
ConcRunNamingResources(c) ==
    /\ cpc[c] = "NamingValidator:resources"
    /\ \E order \in RangeOrders[DOMAIN cFiles[c]] :
         cresult' = [cresult EXCEPT ![c].Issues =
                        @ \o cissues[c] \o NamingResources(cFiles[c], order)]
    /\ cissues' = [cissues EXCEPT ![c] = << >>]
    /\ cpc' = [cpc EXCEPT ![c] = engineValidators[3]]
    /\ UNCHANGED << engineValidators, cFiles, cop >>
    /\ UNCHANGED outsideConc

\* ConcRunSecurity with a validator that keeps the issues it collects in a
\* field that all calls share
ConcRunSecurityShared(c) ==
    /\ cpc[c] = "SecurityValidator"
    /\ \E order \in RangeOrders[DOMAIN cFiles[c]] :
         cissues' = [d \in Callers |-> SecurityCredentials(cFiles[c], order)]
    /\ cpc' = [cpc EXCEPT ![c] = IF MustCompilePanics(sensitivePatternSource)
                                 THEN "panicked" ELSE "SecurityValidator:353"]
    /\ UNCHANGED << engineValidators, cFiles, cop, cresult >>
    /\ UNCHANGED outsideConc

\* the call of caller c runs SecurityValidator: the scan for hard-coded
\* credentials, and then the compilation of sensitivePattern, which panics
ConcRunSecurity(c) ==
    /\ cpc[c] = "SecurityValidator"
    /\ \E order \in RangeOrders[DOMAIN cFiles[c]] :
         cissues' = [cissues EXCEPT ![c] = SecurityCredentials(cFiles[c], order)]
    /\ cpc' = [cpc EXCEPT ![c] = IF MustCompilePanics(sensitivePatternSource)
                                 THEN "panicked" ELSE "SecurityValidator:353"]
    /\ UNCHANGED << engineValidators, cFiles, cop, cresult >>
    /\ UNCHANGED outsideConc

\* the panic leaves the call of caller c, whose locals are dropped
ConcUnwind(c) ==
    /\ cpc[c] = "panicked"
    /\ cpc' = [cpc EXCEPT ![c] = "idle"]
    /\ cresult' = [cresult EXCEPT ![c] = EmptyResult(0)]
    /\ cissues' = [cissues EXCEPT ![c] = << >>]
    /\ UNCHANGED << engineValidators, cFiles, cop >>
    /\ UNCHANGED outsideConc

ConcNext ==
    \/ \E c \in Callers : ConcValidateConfiguration(c)
    \/ \E c \in Callers : ConcSuggestImprovements(c)
    \/ \E c \in Callers : ConcRunStructure(c)
    \/ \E c \in Callers : ConcRunNaming(c)
    \/ \E c \in Callers : ConcRunNamingResources(c)
    \/ \E c \in Callers : ConcRunSecurity(c)
    \/ \E c \in Callers : ConcUnwind(c)

ConcSpec == ConcInit /\ [][ConcNext]_vars

(***************************************************************************)
(* Server.Initialize: Indexer.Initialize, PatternRepository.Initialize and *)
(* registerTools.  The files are read and written without failure.         *)
(***************************************************************************)
\* the calls of Server.Initialize on one server
MaxInits == 2

AllPatterns == [id \in PatternIDs |-> defaultPatterns[CHOOSE k \in DOMAIN defaultPatterns :
                                                        defaultPatterns[k].ID = id]]

\* Server.Initialize is called; Indexer.Initialize looks for index.json and,
\* when it is there, reads it
ServerInitialize ==
    /\ ipc \in {"idle", "returned"}
    /\ inits < MaxInits
    /\ IF disk.docIndex = << >>
       THEN ipc' = "indexer:default" /\ iloaded' = << >>
       ELSE ipc' = "indexer:load" /\ iloaded' = << disk.docIndex[1] >>
    /\ UNCHANGED << storeVars, ik, inits, first, clientVars >>
    /\ UNCHANGED outsideServer

\* initializeDefaultDocs: no source yields a document, the channels are
\* closed; the lock is taken and the map is replaced by an empty one
IndexerLockDefault ==
    /\ ipc = "indexer:default"
    /\ CanLock(imutex)
    /\ imutex' = [imutex EXCEPT !.writer = TRUE]
    /\ resources' = NoEntries
    /\ ipc' = "indexer:practices"
    /\ UNCHANGED << tools, mu, patterns, pmutex, disk, ik, iloaded, inits, first, clientVars >>
    /\ UNCHANGED outsideServer

\* generateDefaultResources, as the map is empty: addDefaultBestPractices
IndexerAddBestPractices ==
    /\ ipc = "indexer:practices"
    /\ resources' = (IF DOMAIN resources = {} THEN addDefaultBestPractices(resources)
                     ELSE resources)
    /\ ipc' = "indexer:structures"
    /\ UNCHANGED << tools, mu, imutex, patterns, pmutex, disk, ik, iloaded, inits, first,
                    clientVars >>
    /\ UNCHANGED outsideServer

\* generateDefaultResources: addDefaultModuleStructures
IndexerAddModuleStructures ==
    /\ ipc = "indexer:structures"
    /\ resources' = addDefaultModuleStructures(resources)
    /\ ipc' = "indexer:save"
    /\ UNCHANGED << tools, mu, imutex, patterns, pmutex, disk, ik, iloaded, inits, first,
                    clientVars >>
    /\ UNCHANGED outsideServer

\* initializeDefaultDocs writes index.json and returns, which unlocks
IndexerSaveIndex ==
    /\ ipc = "indexer:save"
    /\ disk' = [disk EXCEPT !.docIndex = << SaveIndex(resources) >>]
    /\ imutex' = [imutex EXCEPT !.writer = FALSE]
    /\ ipc' = "patterns:lock"
    /\ UNCHANGED << tools, mu, resources, patterns, pmutex, ik, iloaded, inits, first,
                    clientVars >>
    /\ UNCHANGED outsideServer

\* IndexerLockLoad with an assignment of an empty map instead of the map
\* that was read
IndexerLockLoadEmpty ==
    /\ ipc = "indexer:load"
    /\ CanLock(imutex)
    /\ imutex' = [imutex EXCEPT !.writer = TRUE]
    /\ resources' = NoEntries
    /\ ipc' = "indexer:unlock"
    /\ UNCHANGED << tools, mu, patterns, pmutex, disk, ik, iloaded, inits, first, clientVars >>
    /\ UNCHANGED outsideServer

\* Indexer.Initialize with an index.json: the lock is taken and the map is
\* replaced by the one that was read
IndexerLockLoad ==
    /\ ipc = "indexer:load"
    /\ CanLock(imutex)
    /\ imutex' = [imutex EXCEPT !.writer = TRUE]
    /\ resources' = iloaded[1]
    /\ ipc' = "indexer:unlock"
    /\ UNCHANGED << tools, mu, patterns, pmutex, disk, ik, iloaded, inits, first, clientVars >>
    /\ UNCHANGED outsideServer

\* Indexer.Initialize unlocks and returns
IndexerUnlock ==
    /\ ipc = "indexer:unlock"
    /\ imutex' = [imutex EXCEPT !.writer = FALSE]
    /\ iloaded' = << >>
    /\ ipc' = "patterns:lock"
    /\ UNCHANGED << tools, mu, resources, patterns, pmutex, disk, ik, inits, first,
                    clientVars >>
    /\ UNCHANGED outsideServer

\* PatternRepository.Initialize takes the lock and looks for index.json:
\* without it, initializeDefaultPatterns writes it; with it, it is read
PatternsLock ==
    /\ ipc = "patterns:lock"
    /\ CanLock(pmutex)
    /\ pmutex' = [pmutex EXCEPT !.writer = TRUE]
    /\ IF disk.patternIndex = << >>
       THEN /\ disk' = [disk EXCEPT !.patternIndex = << defaultPatterns >>]
            /\ iloaded' = << >>
            /\ ipc' = "patterns:default"
       ELSE /\ disk' = disk
            /\ iloaded' = << disk.patternIndex[1] >>
            /\ ipc' = "patterns:load"
    /\ ik' = 1
    /\ UNCHANGED << tools, mu, resources, imutex, patterns, inits, first, clientVars >>
    /\ UNCHANGED outsideServer

\* an iteration of the loop of initializeDefaultPatterns: the files of the
\* pattern are written to its directory and the pattern is stored
PatternsStoreDefault ==
    /\ ipc = "patterns:default"
    /\ LET pattern == defaultPatterns[ik]
       IN  /\ disk' = [disk EXCEPT !.patternDirs = Store(@, pattern.ID, pattern.Files)]
           /\ patterns' = Store(patterns, pattern.ID, pattern)
    /\ IF ik < Len(defaultPatterns)
       THEN ik' = ik + 1 /\ ipc' = ipc
       ELSE ik' = 0 /\ ipc' = "patterns:unlock"
    /\ UNCHANGED << tools, mu, resources, imutex, pmutex, iloaded, inits, first, clientVars >>
    /\ UNCHANGED outsideServer

\* an iteration of the loop of Initialize over the patterns of index.json:
\* loadPattern reads the files of the directory of the pattern, and the
\* pattern is stored; a pattern without directory is skipped
PatternsLoad ==
    /\ ipc = "patterns:load"
    /\ LET pattern == iloaded[1][ik]
       IN  patterns' = (IF pattern.ID \in DOMAIN disk.patternDirs
                        THEN Store(patterns, pattern.ID,
                                   [pattern EXCEPT !.Files = disk.patternDirs[pattern.ID]])
                        ELSE patterns)
    /\ IF ik < Len(iloaded[1])
       THEN ik' = ik + 1 /\ ipc' = ipc
       ELSE ik' = 0 /\ ipc' = "patterns:unlock"
    /\ UNCHANGED << tools, mu, resources, imutex, pmutex, disk, iloaded, inits, first,
                    clientVars >>
    /\ UNCHANGED outsideServer

\* PatternRepository.Initialize returns, which unlocks
PatternsUnlock ==
    /\ ipc = "patterns:unlock"
    /\ pmutex' = [pmutex EXCEPT !.writer = FALSE]
    /\ iloaded' = << >>
    /\ ik' = 1
    /\ ipc' = "tools:lock"
    /\ UNCHANGED << tools, mu, resources, imutex, patterns, disk, inits, first, clientVars >>
    /\ UNCHANGED outsideServer

\* registerTools: AddTool takes the lock of the registry
AddToolLock ==
    /\ ipc = "tools:lock"
    /\ CanLock(mu)
    /\ mu' = [mu EXCEPT !.writer = TRUE]
    /\ ipc' = "tools:store"
    /\ UNCHANGED << tools, resources, imutex, patterns, pmutex, disk, ik, iloaded, inits,
                    first, clientVars >>
    /\ UNCHANGED outsideServer

\* AddTool stores the tool, which this call of registerTools has made, under
\* its name and returns, which unlocks
AddTool ==
    /\ ipc = "tools:store"
    /\ tools' = Store(tools, toolNames[ik], [name |-> toolNames[ik], made |-> inits + 1])
    /\ mu' = [mu EXCEPT !.writer = FALSE]
    /\ IF ik < Len(toolNames)
       THEN ik' = ik + 1 /\ ipc' = "tools:lock"
       ELSE ik' = 0 /\ ipc' = "tools:done"
    /\ UNCHANGED << resources, imutex, patterns, pmutex, disk, iloaded, inits, first,
                    clientVars >>
    /\ UNCHANGED outsideServer

\* registerTools as one step: the five calls of AddTool, one after the other,
\* where no goroutine uses the registry and so none can see a step between
RegisterTools ==
    /\ ipc = "tools:lock" /\ ik = 1
    /\ CanLock(mu)
    /\ tools' = [n \in DOMAIN tools \cup { toolNames[k] : k \in DOMAIN toolNames } |->
                    IF \E k \in DOMAIN toolNames : toolNames[k] = n
                    THEN [name |-> n, made |-> inits + 1] ELSE tools[n]]
    /\ ik' = 0
    /\ ipc' = "tools:done"
    /\ UNCHANGED << mu, resources, imutex, patterns, pmutex, disk, iloaded, inits, first,
                    clientVars >>
    /\ UNCHANGED outsideServer

\* the documents of the index, as the lookups decode them
Documents(m) == [u \in DOMAIN m |-> [Type |-> m[u].Type, doc |-> Unmarshal(m[u].Content)]]

\* Server.Initialize returns nil
InitializeReturn ==
    /\ ipc = "tools:done"
    /\ ipc' = "returned"
    /\ inits' = inits + 1
    /\ first' = (IF inits = 0
                 THEN [tools |-> DOMAIN tools, docs |-> Documents(resources),
                       patterns |-> patterns]
                 ELSE first)
    /\ UNCHANGED << storeVars, ik, iloaded, clientVars >>
    /\ UNCHANGED outsideServer

(***************************************************************************)
(* The goroutines: HandleRequest with the tools' Execute, and the reads of *)
(* the indexer and of the pattern repository.                              *)
(***************************************************************************)
\* the practices that the loop of GetBestPractices appends, called with a
\* category and a provider
KeptPractices(call) ==
    { u \in DOMAIN resources :
        /\ resources[u].Type = ResourceTypeBestPractice
        /\ LET practice == Unmarshal(resources[u].Content)
           IN  /\ ~(call.category # "" /\ practice.Category # call.category)
               /\ ~(call.provider # "" /\ practice.Provider # call.provider) }

\* the structures that the loop of GetModuleStructures appends, called with
\* a provider
KeptStructures(call) ==
    { u \in DOMAIN resources :
        /\ resources[u].Type = ResourceTypeModuleStructure
        /\ ~(call.provider # "" /\ Unmarshal(resources[u].Content).Provider # call.provider) }

\* Reads where a lookup of a key that is not stored returns nil and no error
ReadsNilOnMiss(call) ==
    CASE call.fn = "GetPatternByID" ->
            { IF call.id \in DOMAIN patterns
              THEN Return(FALSE, << call.id >>) ELSE Return(FALSE, << >>) }
      [] call.fn = "GetResource" ->
            { IF call.id \in DOMAIN resources
              THEN Return(FALSE, << resources[call.id].Content >>) ELSE Return(FALSE, << >>) }
      [] OTHER -> { Return(FALSE, << >>) }

\* what a read can return on the index as it is: a loop over a map appends
\* what it keeps in the order of the iteration, which is any order
Reads(call) ==
    CASE call.fn = "GetPatternByID" ->
            { IF call.id \in DOMAIN patterns
              THEN Return(FALSE, << call.id >>)
              ELSE Fail("pattern not found: " \o call.id) }
      [] call.fn = "FindPatterns" ->
            { Return(FALSE, FindPatterns(patterns, call.filter, order)) :
                order \in Orders({ id \in DOMAIN patterns :
                                    ~Skipped(patterns[id], call.filter) }) }
      [] call.fn = "GetResource" ->
            { IF call.id \in DOMAIN resources
              THEN Return(FALSE, << resources[call.id].Content >>)
              ELSE Fail("resource not found: " \o call.id) }
      [] call.fn = "ListResources" ->
            { Return(FALSE, order) :
                order \in Orders({ u \in DOMAIN resources : HasPrefix(u, call.id) }) }
      [] call.fn = "GetBestPractices" ->
            { Return(FALSE, [k \in DOMAIN order |-> Unmarshal(resources[order[k]].Content).ID]) :
                order \in Orders(KeptPractices(call)) }
      [] call.fn = "GetModuleStructures" ->
            { Return(FALSE, [k \in DOMAIN order |-> Unmarshal(resources[order[k]].Content).Type]) :
                order \in Orders(KeptStructures(call)) }

\* a pointer argument of GetPatternTemplate: nil when the object lacks it
Pointer(value) == IF value = "" THEN << >> ELSE << value >>

\* the requests of the client of the server
Requests ==
    { Request(id, tool, Arguments(json, "", "", "")) :
        id \in {"r1", "r2"},
        tool \in { toolNames[k] : k \in DOMAIN toolNames } \cup { "InvalidTool" },
        json \in {"object", "string"} }
    \cup { Request("r1", "GetPatternTemplate", Arguments("object", "aws-vpc-basic", "", "")),
           Request("r1", "GetPatternTemplate", Arguments("object", "no-such-pattern", "", "")),
           Request("r1", "GetPatternTemplate", Arguments("object", "", "", "azure")),
           Request("r2", "GetBestPractices", Arguments("object", "", "security", "")) }

\* the GetBestPractices requests of concurrent clients
BestPracticeRequests ==
    { Request("r1", "GetBestPractices", Arguments("object", "", category, "")) :
        category \in {"security"} }

\* the reads of concurrent readers: one of each function
ReadCalls ==
    { Call("GetPatternByID", "azure-vnet-basic", "", "", NoFilter),
      Call("FindPatterns", "", "", "", PatternFilter(<< >>, << "azure" >>, << >>, << >>, "")),
      Call("GetResource", "bestpractice:security/security-group-rules", "", "", NoFilter),
      Call("ListResources", "modulestructure:generic", "", "", NoFilter),
      Call("GetBestPractices", "", "security", "", NoFilter),
      Call("GetModuleStructures", "", "", "aws", NoFilter) }

\* the filters of FindPatterns
Filters ==
    { PatternFilter(category, provider, complexity, tags, query) :
        category \in { << >>, << "networking" >>, << "compute" >> },
        provider \in { << >>, << "aws" >>, << "AWS" >> },
        complexity \in { << >>, << "basic" >> },
        tags \in { << >>, << "VPC" >>, << "web", "Module" >>, << "none" >> },
        query \in { "", "vpc", "BASIC", "Terraform-Module" } }

\* a client sends a request: HandleRequest is called
StartRequest(p) ==
    /\ spc[p] = "idle"
    /\ \E req \in Requests : sreq' = [sreq EXCEPT ![p] = req]
    /\ spc' = [spc EXCEPT ![p] = "lookup"]
    /\ UNCHANGED << storeVars, initVars, stool, scall, sres, sresp >>
    /\ UNCHANGED outsideServer

\* one of several clients sends a GetBestPractices request
StartGetBestPractices(p) ==
    /\ spc[p] = "idle"
    /\ \E req \in BestPracticeRequests : sreq' = [sreq EXCEPT ![p] = req]
    /\ spc' = [spc EXCEPT ![p] = "lookup"]
    /\ UNCHANGED << storeVars, initVars, stool, scall, sres, sresp >>
    /\ UNCHANGED outsideServer

\* a goroutine calls a read of the indexer or of the pattern repository
StartRead(p) ==
    /\ spc[p] = "idle"
    /\ \E call \in ReadCalls : scall' = [scall EXCEPT ![p] = call]
    /\ spc' = [spc EXCEPT ![p] = "rlock"]
    /\ UNCHANGED << storeVars, initVars, sreq, stool, sres, sresp >>
    /\ UNCHANGED outsideServer

\* a caller calls FindPatterns with a filter
StartFind(p) ==
    /\ spc[p] = "idle"
    /\ \E filter \in Filters :
         scall' = [scall EXCEPT ![p] = Call("FindPatterns", "", "", "", filter)]
    /\ spc' = [spc EXCEPT ![p] = "rlock"]
    /\ UNCHANGED << storeVars, initVars, sreq, stool, sres, sresp >>
    /\ UNCHANGED outsideServer

\* LookupRLock with s.mu.Lock() in the place of s.mu.RLock()
LookupLock(p) ==
    /\ spc[p] = "lookup"
    /\ CanLock(mu)
    /\ mu' = [mu EXCEPT !.writer = TRUE]
    /\ spc' = [spc EXCEPT ![p] = "lookup:read"]
    /\ UNCHANGED << tools, resources, imutex, patterns, pmutex, disk, initVars,
                    sreq, stool, scall, sres, sresp >>
    /\ UNCHANGED outsideServer

\* HandleRequest: s.mu.RLock()
LookupRLock(p) ==
    /\ spc[p] = "lookup"
    /\ CanRLock(mu)
    /\ mu' = [mu EXCEPT !.readers = @ \cup {p}]
    /\ spc' = [spc EXCEPT ![p] = "lookup:read"]
    /\ UNCHANGED << tools, resources, imutex, patterns, pmutex, disk, initVars,
                    sreq, stool, scall, sres, sresp >>
    /\ UNCHANGED outsideServer

\* HandleRequest: the tool is looked up, s.mu.RUnlock(), and without the
\* tool the response tool_not_found is returned
LookupTool(p) ==
    /\ spc[p] = "lookup:read"
    /\ mu' = [mu EXCEPT !.readers = @ \ {p}]
    /\ IF sreq[p].Tool \in DOMAIN tools
       THEN /\ stool' = [stool EXCEPT ![p] = << tools[sreq[p].Tool] >>]
            /\ sresp' = sresp
            /\ spc' = [spc EXCEPT ![p] = "execute"]
       ELSE /\ stool' = [stool EXCEPT ![p] = << >>]
            /\ sresp' = [sresp EXCEPT ![p] =
                            ErrorResponse(sreq[p].ID, "tool_not_found",
                                          "Tool \"" \o sreq[p].Tool \o "\" not found")]
            /\ spc' = [spc EXCEPT ![p] = "responded"]
    /\ UNCHANGED << tools, resources, imutex, patterns, pmutex, disk, initVars,
                    sreq, scall, sres >>
    /\ UNCHANGED outsideServer

\* the read that the Execute of a tool makes with decoded arguments
ToolCall(tool, args) ==
    CASE tool = "GetBestPractices" ->
            Call("GetBestPractices", "", args.category, args.provider, NoFilter)
      [] tool = "GetModuleStructure" ->
            Call("GetModuleStructures", "", "", args.provider, NoFilter)
      [] tool = "GetPatternTemplate" ->
            IF args.id # ""
            THEN Call("GetPatternByID", args.id, "", "", NoFilter)
            ELSE Call("FindPatterns", "", "", "",
                      PatternFilter(Pointer(args.category), Pointer(args.provider),
                                    << >>, << >>, ""))
      [] OTHER -> NoCall

\* the error that Execute makes of the error of its read
WrapError(fn, msg) ==
    CASE fn = "GetPatternByID" -> "failed to get pattern: " \o msg
      [] fn = "FindPatterns" -> "failed to find patterns: " \o msg
      [] fn = "GetBestPractices" -> "failed to get best practices: " \o msg
      [] OTHER -> "failed to get module structures: " \o msg

\* tool.Execute: the arguments are decoded; when they cannot be, Execute
\* returns an error and HandleRequest the response execution_error; the
\* validation tools go on to the engine, the other tools to their read
Execute(p) ==
    /\ spc[p] = "execute"
    /\ IF sreq[p].Arguments.json # "object"
       THEN /\ sresp' = [sresp EXCEPT ![p] =
                            ErrorResponse(sreq[p].ID, "execution_error",
                                          "failed to unmarshal arguments: json: cannot unmarshal string into Go value of type hashicorp."
                                              \o stool[p][1].name \o "Args")]
            /\ scall' = scall
            /\ spc' = [spc EXCEPT ![p] = "responded"]
       ELSE /\ sresp' = sresp
            /\ IF stool[p][1].name \in {"ValidateConfiguration", "SuggestImprovements"}
               THEN /\ scall' = scall
                    /\ spc' = [spc EXCEPT ![p] = "engine"]
               ELSE /\ scall' = [scall EXCEPT ![p] =
                                    ToolCall(stool[p][1].name, sreq[p].Arguments)]
                    /\ spc' = [spc EXCEPT ![p] = "rlock"]
    /\ UNCHANGED << storeVars, initVars, sreq, stool, sres >>
    /\ UNCHANGED outsideServer

\* the Execute of a validation tool calls ValidateConfiguration or
\* SuggestImprovements, which panics where SecurityValidator compiles
\* sensitivePattern: the panic goes through Execute and HandleRequest
EngineCall(p) ==
    /\ spc[p] = "engine"
    /\ IF MustCompilePanics(sensitivePatternSource)
       THEN /\ spc' = [spc EXCEPT ![p] = "panicked"]
            /\ sresp' = sresp
       ELSE /\ spc' = [spc EXCEPT ![p] = "responded"]
            /\ sresp' = [sresp EXCEPT ![p] = Response(sreq[p].ID, "success", "", << >>)]
    /\ UNCHANGED << storeVars, initVars, sreq, stool, scall, sres >>
    /\ UNCHANGED outsideServer

\* HandleRequest has been left by the panic, without a response
Abandon(p) ==
    /\ spc[p] = "panicked"
    /\ spc' = [spc EXCEPT ![p] = "idle"]
    /\ sreq' = [sreq EXCEPT ![p] = NoRequest]
    /\ stool' = [stool EXCEPT ![p] = << >>]
    /\ UNCHANGED << storeVars, initVars, scall, sres, sresp >>
    /\ UNCHANGED outsideServer

\* ReadRLock with a read that does not wait for the writer
ReadNoWait(p) ==
    /\ spc[p] = "rlock"
    /\ IF scall[p].fn \in indexerReads
       THEN /\ imutex' = [imutex EXCEPT !.readers = @ \cup {p}]
            /\ pmutex' = pmutex
       ELSE /\ pmutex' = [pmutex EXCEPT !.readers = @ \cup {p}]
            /\ imutex' = imutex
    /\ spc' = [spc EXCEPT ![p] = "inside"]
    /\ UNCHANGED << tools, mu, resources, patterns, disk, initVars,
                    sreq, stool, scall, sres, sresp >>
    /\ UNCHANGED outsideServer

\* a read begins: i.mutex.RLock() or r.mutex.RLock()
ReadRLock(p) ==
    /\ spc[p] = "rlock"
    /\ IF scall[p].fn \in indexerReads
       THEN /\ CanRLock(imutex)
            /\ imutex' = [imutex EXCEPT !.readers = @ \cup {p}]
            /\ pmutex' = pmutex
       ELSE /\ CanRLock(pmutex)
            /\ pmutex' = [pmutex EXCEPT !.readers = @ \cup {p}]
            /\ imutex' = imutex
    /\ spc' = [spc EXCEPT ![p] = "inside"]
    /\ UNCHANGED << tools, mu, resources, patterns, disk, initVars,
                    sreq, stool, scall, sres, sresp >>
    /\ UNCHANGED outsideServer

\* the read looks at the index and returns, which unlocks; in a request,
\* Execute returns what the read returned, and HandleRequest the response:
\* execution_error for an error, success with the result otherwise
Read(p) ==
    /\ spc[p] = "inside"
    /\ IF scall[p].fn \in indexerReads
       THEN /\ imutex' = [imutex EXCEPT !.readers = @ \ {p}]
            /\ pmutex' = pmutex
       ELSE /\ pmutex' = [pmutex EXCEPT !.readers = @ \ {p}]
            /\ imutex' = imutex
    /\ \E ret \in Reads(scall[p]) :
         /\ sres' = [sres EXCEPT ![p] = ret]
         /\ IF sreq[p] = NoRequest
            THEN /\ sresp' = sresp
                 /\ spc' = [spc EXCEPT ![p] = "read"]
            ELSE /\ sresp' = [sresp EXCEPT ![p] =
                                 IF ret.err
                                 THEN ErrorResponse(sreq[p].ID, "execution_error",
                                                    WrapError(scall[p].fn, ret.msg))
                                 ELSE Response(sreq[p].ID, "success", "", ret.items)]
                 /\ spc' = [spc EXCEPT ![p] = "responded"]
    /\ UNCHANGED << tools, mu, resources, patterns, disk, initVars, sreq, stool, scall >>
    /\ UNCHANGED outsideServer

\* the caller has its response or what the read returned; the goroutine
\* is free for the next call
Finish(p) ==
    /\ spc[p] \in {"responded", "read"}
    /\ spc' = [spc EXCEPT ![p] = "idle"]
    /\ sreq' = [sreq EXCEPT ![p] = NoRequest]
    /\ stool' = [stool EXCEPT ![p] = << >>]
    /\ scall' = [scall EXCEPT ![p] = NoCall]
    /\ sres' = [sres EXCEPT ![p] = NoReturn]
    /\ sresp' = [sresp EXCEPT ![p] = NoResponse]
    /\ UNCHANGED << storeVars, initVars >>
    /\ UNCHANGED outsideServer

\* Read and Finish as one step of a reader that is not in a request: the
\* read looks at the index and returns, which unlocks, and the goroutine
\* drops what the read returned and is free for the next call
ReadReturn(p) ==
    /\ spc[p] = "inside"
    /\ sreq[p] = NoRequest
    /\ IF scall[p].fn \in indexerReads
       THEN /\ imutex' = [imutex EXCEPT !.readers = @ \ {p}]
            /\ pmutex' = pmutex
       ELSE /\ pmutex' = [pmutex EXCEPT !.readers = @ \ {p}]
            /\ imutex' = imutex
    /\ Reads(scall[p]) # {}
    /\ spc' = [spc EXCEPT ![p] = "idle"]
    /\ scall' = [scall EXCEPT ![p] = NoCall]
    /\ UNCHANGED << tools, mu, resources, patterns, disk, initVars, sreq, stool, sres, sresp >>
    /\ UNCHANGED outsideServer

\* the goroutines P, none in a call
ClientsIdle(P) ==
    /\ spc = [p \in P |-> "idle"]
    /\ sreq = [p \in P |-> NoRequest]
    /\ stool = [p \in P |-> << >>]
    /\ scall = [p \in P |-> NoCall]
    /\ sres = [p \in P |-> NoReturn]
    /\ sresp = [p \in P |-> NoResponse]

\* the server as NewServer leaves it
ServerFresh ==
    /\ FetchParked
    /\ tools = NoEntries /\ mu = FreeMutex
    /\ resources = NoEntries /\ imutex = FreeMutex
    /\ patterns = NoEntries /\ pmutex = FreeMutex
    /\ disk = EmptyDisk
    /\ ipc = "idle" /\ ik = 0 /\ iloaded = << >> /\ inits = 0 /\ first = NoSnapshot

\* the index of the documents after the first Initialize
DefaultResources == addDefaultModuleStructures(addDefaultBestPractices(NoEntries))

\* the server after its first Initialize has returned
ServerInitialized ==
    /\ FetchParked
    /\ tools = [n \in { toolNames[k] : k \in DOMAIN toolNames } |-> [name |-> n, made |-> 1]]
    /\ mu = FreeMutex
    /\ resources = DefaultResources /\ imutex = FreeMutex
    /\ patterns = AllPatterns /\ pmutex = FreeMutex
    /\ disk = [docIndex |-> << SaveIndex(DefaultResources) >>,
               patternIndex |-> << defaultPatterns >>,
               patternDirs |-> [id \in PatternIDs |-> AllPatterns[id].Files]]
    /\ ipc = "returned" /\ ik = 0 /\ iloaded = << >> /\ inits = 1
    /\ first = [tools |-> { toolNames[k] : k \in DOMAIN toolNames },
                docs |-> Documents(DefaultResources), patterns |-> AllPatterns]

InitializeNext ==
    \/ ServerInitialize
    \/ IndexerLockDefault
    \/ IndexerAddBestPractices
    \/ IndexerAddModuleStructures
    \/ IndexerSaveIndex
    \/ IndexerLockLoad
    \/ IndexerUnlock
    \/ PatternsLock
    \/ PatternsStoreDefault
    \/ PatternsLoad
    \/ PatternsUnlock
    \/ AddToolLock
    \/ AddTool
    \/ InitializeReturn

\* one client of a server that is initialized, and initialized again
TheClient == {1}

ServerInit ==
    /\ EngineParked /\ ConcParked
    /\ ServerFresh
    /\ ClientsIdle(TheClient)

ServerNext ==
    \/ InitializeNext
    \/ \E p \in TheClient : StartRequest(p)
    \/ \E p \in TheClient : LookupRLock(p)
    \/ \E p \in TheClient : LookupTool(p)
    \/ \E p \in TheClient : Execute(p)
    \/ \E p \in TheClient : EngineCall(p)
    \/ \E p \in TheClient : Abandon(p)
    \/ \E p \in TheClient : ReadRLock(p)
    \/ \E p \in TheClient : Read(p)
    \/ \E p \in TheClient : Finish(p)

ServerSpec == ServerInit /\ [][ServerNext]_vars

\* several readers of the indexer and of the pattern repository while the
\* server is initialized, and initialized again
MaxReaders == 2

LockInit ==
    /\ EngineParked /\ ConcParked
    /\ ServerFresh
    /\ ClientsIdle(1..MaxReaders)

LockNext ==
    \/ ServerInitialize
    \/ IndexerLockDefault
    \/ IndexerAddBestPractices
    \/ IndexerAddModuleStructures
    \/ IndexerSaveIndex
    \/ IndexerLockLoad
    \/ IndexerUnlock
    \/ PatternsLock
    \/ PatternsStoreDefault
    \/ PatternsLoad
    \/ PatternsUnlock
    \/ RegisterTools
    \/ InitializeReturn
    \/ \E p \in 1..MaxReaders : StartRead(p)
    \/ \E p \in 1..MaxReaders : ReadRLock(p)
    \/ \E p \in 1..MaxReaders : ReadReturn(p)

LockSpec == LockInit /\ [][LockNext]_vars

\* several clients that send GetBestPractices requests to an initialized
\* server at the same time; a goroutine that can take a step takes one
MaxRequests == 3

LiveInit ==
    /\ EngineParked /\ ConcParked
    /\ ServerInitialized
    /\ ClientsIdle(1..MaxRequests)

\* the steps of HandleRequest in goroutine p
Handle(p) ==
    \/ LookupRLock(p)
    \/ LookupTool(p)
    \/ Execute(p)
    \/ ReadRLock(p)
    \/ Read(p)

LiveNext ==
    \/ \E p \in 1..MaxRequests : StartGetBestPractices(p)
    \/ \E p \in 1..MaxRequests : Handle(p)
    \/ \E p \in 1..MaxRequests : Finish(p)

LiveSpec ==
    /\ LiveInit
    /\ [][LiveNext]_vars
    /\ \A p \in 1..MaxRequests : WF_vars(Handle(p))

\* a caller of FindPatterns on a repository that is empty or initialized
FindInit ==
    /\ EngineParked /\ ConcParked
    /\ ServerFresh \/ ServerInitialized
    /\ ClientsIdle(TheClient)

FindNext ==
    \/ \E p \in TheClient : StartFind(p)
    \/ \E p \in TheClient : ReadRLock(p)
    \/ \E p \in TheClient : Read(p)
    \/ \E p \in TheClient : Finish(p)

FindSpec == FindInit /\ [][FindNext]_vars

\* lookups by key on the initialized server, of keys that are stored and of
\* keys that are not: the calls of GetPatternByID and GetResource, and the
\* GetPatternTemplate requests with an id
LookupCalls ==
    { Call("GetPatternByID", id, "", "", NoFilter) : id \in {"aws-vpc-basic", "no-such-pattern"} }
    \cup { Call("GetResource", uri, "", "", NoFilter) :
             uri \in {"bestpractice:security/security-group-rules", "bestpractice:none/none"} }

TemplateRequests ==
    { Request("r1", "GetPatternTemplate", Arguments("object", id, "", "")) :
        id \in {"aws-vpc-basic", "no-such-pattern"} }

\* a goroutine calls GetPatternByID or GetResource
StartLookup(p) ==
    /\ spc[p] = "idle"
    /\ \E call \in LookupCalls : scall' = [scall EXCEPT ![p] = call]
    /\ spc' = [spc EXCEPT ![p] = "rlock"]
    /\ UNCHANGED << storeVars, initVars, sreq, stool, sres, sresp >>
    /\ UNCHANGED outsideServer

\* a client sends a GetPatternTemplate request with an id
StartTemplateRequest(p) ==
    /\ spc[p] = "idle"
    /\ \E req \in TemplateRequests : sreq' = [sreq EXCEPT ![p] = req]
    /\ spc' = [spc EXCEPT ![p] = "lookup"]
    /\ UNCHANGED << storeVars, initVars, stool, scall, sres, sresp >>
    /\ UNCHANGED outsideServer

LookupInit ==
    /\ EngineParked /\ ConcParked
    /\ ServerInitialized
    /\ ClientsIdle(1..MaxReaders)

LookupNext ==
    \/ \E p \in 1..MaxReaders : StartLookup(p)
    \/ \E p \in 1..MaxReaders : StartTemplateRequest(p)
    \/ \E p \in 1..MaxReaders : LookupRLock(p)
    \/ \E p \in 1..MaxReaders : LookupTool(p)
    \/ \E p \in 1..MaxReaders : Execute(p)
    \/ \E p \in 1..MaxReaders : ReadRLock(p)
    \/ \E p \in 1..MaxReaders : Read(p)
    \/ \E p \in 1..MaxReaders : Finish(p)

LookupSpec == LookupInit /\ [][LookupNext]_vars

(***************************************************************************)
(* Indexer.initializeDefaultDocs with its goroutines: one fetch worker for *)
(* each authority source, and one goroutine that closes the channels.      *)
(***************************************************************************)
MaxSources == 3

\* i.authoritySources: the default sources, then sources that are no URLs
AuthoritySources ==
    << "https://developer.hashicorp.com/terraform/language/modules/develop",
       "https://developer.hashicorp.com/terraform/language/style",
       "https://developer.hashicorp.com/validated-designs/terraform-operating-guides-adoption/terraform-workflows",
       "https://developer.hashicorp.com/terraform/tutorials/pro-cert/pro-review" >>

authoritySource(k) ==
    IF k <= Len(AuthoritySources) THEN AuthoritySources[k] ELSE "docs/local.md"

\* fetchDocumentation: the error it returns, "nil" for none; it sends
\* nothing on the channels
fetchDocumentation(source) ==
    IF HasPrefix(source, "http") THEN "nil" ELSE "nil"

\* the loop over the sources: wg.Add(1) and the go statement of a worker
FetchSpawn ==
    /\ ipc = "fetch:spawn" /\ ik <= Len(wpc)
    /\ wg' = wg + 1
    /\ wpc' = [wpc EXCEPT ![ik] = "running"]
    /\ ik' = ik + 1
    /\ UNCHANGED << storeVars, ipc, iloaded, inits, first, clientVars, chans, kpc >>
    /\ UNCHANGED outsideFetch

\* after the loop: the go statement of the goroutine that closes the channels
FetchSpawnCloser ==
    /\ ipc = "fetch:spawn" /\ ik > Len(wpc)
    /\ kpc' = "wait"
    /\ ik' = 0
    /\ ipc' = "fetch:lock"
    /\ UNCHANGED << storeVars, iloaded, inits, first, clientVars, wpc, wg, chans >>
    /\ UNCHANGED outsideFetch

\* i.mutex.Lock() and the new map
FetchLock ==
    /\ ipc = "fetch:lock"
    /\ CanLock(imutex)
    /\ imutex' = [imutex EXCEPT !.writer = TRUE]
    /\ resources' = NoEntries
    /\ ipc' = "fetch:practices"
    /\ UNCHANGED << tools, mu, patterns, pmutex, disk, ik, iloaded, inits, first, clientVars,
                    fetchVars >>
    /\ UNCHANGED outsideFetch

\* for practice := range bestPractices, then for structure := range
\* moduleStructures: nothing is ever sent, so each loop waits for the close
\* of its channel and ends
FetchRange ==
    /\ \/ ipc = "fetch:practices" /\ chans.bestPractices > 0 /\ ipc' = "fetch:structures"
       \/ ipc = "fetch:structures" /\ chans.moduleStructures > 0 /\ ipc' = "fetch:errors"
    /\ UNCHANGED << storeVars, ik, iloaded, inits, first, clientVars, fetchVars >>
    /\ UNCHANGED outsideFetch

\* for err := range errCh: an error that the channel holds is received; when
\* the channel is empty and closed the loop ends, and with an error received
\* initializeDefaultDocs returns it, which unlocks, else goes on to the
\* default resources
FetchRangeErrors ==
    /\ ipc = "fetch:errors"
    /\ IF chans.queue # << >>
       THEN /\ chans' = [chans EXCEPT !.queue = Tail(@), !.errs = Append(@, chans.queue[1])]
            /\ ipc' = ipc /\ imutex' = imutex
       ELSE /\ chans.errCh > 0
            /\ chans' = chans
            /\ IF chans.errs # << >>
               THEN ipc' = "fetch:failed" /\ imutex' = [imutex EXCEPT !.writer = FALSE]
               ELSE ipc' = "indexer:practices" /\ imutex' = imutex
    /\ UNCHANGED << tools, mu, resources, patterns, pmutex, disk, ik, iloaded, inits, first,
                    clientVars, wpc, wg, kpc >>
    /\ UNCHANGED outsideFetch

\* a worker calls fetchDocumentation and sends its error, if any, on errCh,
\* which has room for one error of each worker
WorkerFetch(k) ==
    /\ wpc[k] = "running"
    /\ LET err == fetchDocumentation(authoritySource(k))
       IN  chans' = (IF err # "nil" THEN [chans EXCEPT !.queue = Append(@, err)] ELSE chans)
    /\ wpc' = [wpc EXCEPT ![k] = "fetched"]
    /\ UNCHANGED << serverVars, wg, kpc >>
    /\ UNCHANGED outsideFetch

\* WorkerDone without wg.Done()
WorkerNoDone(k) ==
    /\ wpc[k] = "fetched"
    /\ wg' = wg
    /\ wpc' = [wpc EXCEPT ![k] = "done"]
    /\ UNCHANGED << serverVars, chans, kpc >>
    /\ UNCHANGED outsideFetch

\* the worker returns: the deferred wg.Done()
WorkerDone(k) ==
    /\ wpc[k] = "fetched"
    /\ wg' = wg - 1
    /\ wpc' = [wpc EXCEPT ![k] = "done"]
    /\ UNCHANGED << serverVars, chans, kpc >>
    /\ UNCHANGED outsideFetch

\* the closing goroutine: wg.Wait(), then close(bestPractices),
\* close(moduleStructures), close(errCh)
Closer ==
    /\ \/ kpc = "wait" /\ wg = 0 /\ kpc' = "close:practices" /\ chans' = chans
       \/ /\ kpc = "close:practices" /\ kpc' = "close:structures"
          /\ chans' = [chans EXCEPT !.bestPractices = @ + 1]
       \/ /\ kpc = "close:structures" /\ kpc' = "close:errors"
          /\ chans' = [chans EXCEPT !.moduleStructures = @ + 1]
       \/ /\ kpc = "close:errors" /\ kpc' = "done"
          /\ chans' = [chans EXCEPT !.errCh = @ + 1]
    /\ UNCHANGED << serverVars, wpc, wg >>
    /\ UNCHANGED outsideFetch

\* Indexer.Initialize has found no index.json and calls
\* initializeDefaultDocs, for any number of sources; a reader of the indexer
\* and of the repository runs beside it
FetchInit ==
    /\ EngineParked /\ ConcParked
    /\ tools = NoEntries /\ mu = FreeMutex
    /\ resources = NoEntries /\ imutex = FreeMutex
    /\ patterns = NoEntries /\ pmutex = FreeMutex
    /\ disk = EmptyDisk
    /\ ipc = "fetch:spawn" /\ ik = 1 /\ iloaded = << >> /\ inits = 0 /\ first = NoSnapshot
    /\ ClientsIdle(TheClient)
    /\ \E n \in 0..MaxSources : wpc = [k \in 1..n |-> "unstarted"]
    /\ wg = 0 /\ chans = NoChannels /\ kpc = "none"

\* the steps of the goroutine that called initializeDefaultDocs
FetchMain ==
    \/ FetchSpawn
    \/ FetchSpawnCloser
    \/ FetchRange
    \/ FetchRangeErrors
    \/ IndexerAddBestPractices
    \/ IndexerAddModuleStructures
    \/ IndexerSaveIndex

FetchNext ==
    \/ FetchMain
    \/ FetchLock
    \/ \E k \in 1..MaxSources : k \in DOMAIN wpc /\ WorkerFetch(k)
    \/ \E k \in 1..MaxSources : k \in DOMAIN wpc /\ WorkerDone(k)
    \/ Closer
    \/ \E p \in TheClient : StartRead(p)
    \/ \E p \in TheClient : ReadRLock(p)
    \/ \E p \in TheClient : ReadReturn(p)

\* every goroutine that can take a step takes one; a Lock that waits keeps
\* new readers out (sync.RWMutex), so it is taken when it can be taken again
\* and again
FetchSpec ==
    /\ FetchInit /\ [][FetchNext]_vars
    /\ WF_vars(FetchMain)
    /\ SF_vars(FetchLock)
    /\ \A k \in 1..MaxSources : WF_vars(k \in DOMAIN wpc /\ (WorkerFetch(k) \/ WorkerDone(k)))
    /\ WF_vars(Closer)
    /\ \A p \in TheClient : WF_vars(ReadRLock(p) \/ ReadReturn(p))

(***************************************************************************)
(* Properties                                                              *)
(***************************************************************************)
\* the call has ended, by a return or by a panic
CallEnded == pc \in {"returned", "panicked"}

\* ValidateConfiguration has returned its result with a nil error
Returned == pc = "returned"

\* the findings the call has produced: those already in the result and those
\* the running validator holds
Findings == result.Issues \o issues

CountIssues(list, P(_)) == Cardinality({ k \in 1..Len(list) : P(list[k]) })

\* the number of places where substr occurs in s
Occurrences(s, substr) ==
    Cardinality({ i \in 1..(Len(s) - Len(substr) + 1) : Sub(s, i, i + Len(substr) - 1) = substr })

\* C1: when a call has ended it has returned a result in which ErrorCount +
\* WarnCount + InfoCount is the number of issues, the three counts are not
\* negative, and FileCount is the number of files of the bundle.
C1_SummaryCounts ==
    CallEnded =>
        /\ Returned
        /\ result.ErrorCount + result.WarnCount + result.InfoCount = Len(result.Issues)
        /\ result.ErrorCount >= 0 /\ result.WarnCount >= 0 /\ result.InfoCount >= 0
        /\ result.FileCount = Cardinality(DOMAIN Files)

\* C2: when a ValidateConfiguration call ends after another one on the
\* unchanged bundle, the second has produced the same findings in the same
\* order as the first.
C2_SameFindingsTwice ==
    (CallEnded /\ op = "ValidateConfiguration" /\ last.op = "ValidateConfiguration")
        => result.Issues = last.Issues

\* C3: no validator panics, and a call that has ended has returned after
\* running all six validators.
C3_NoValidatorPanics ==
    /\ pc # "panicked"
    /\ CallEnded => (Returned /\ [k \in 1..Len(ran) |-> ran[k].name] = validators)

IsStructureError(issue) ==
    issue.Severity = SeverityError /\ issue.Category = CategoryStructure

\* C4: a call that has ended has returned exactly one structure error when
\* the bundle has no main.tf, and no structure error when main.tf,
\* variables.tf, outputs.tf and README.md are all present.
C4_StructureErrors ==
    CallEnded =>
        /\ Returned
        /\ ~hasFile(Files, "main.tf") => CountIssues(result.Issues, IsStructureError) = 1
        /\ {"main.tf", "variables.tf", "outputs.tf", "README.md"} \subseteq DOMAIN Files
              => CountIssues(result.Issues, IsStructureError) = 0

\* C5: for the bundle named {main, vars, output.tf} no finding reports
\* main.tf, variables.tf or outputs.tf as missing.
C5_NormalizedNames ==
    DOMAIN Files = {"main", "vars", "output.tf"} =>
        \A k \in 1..Len(result.Issues) :
            result.Issues[k].Message \notin
                { "Missing main.tf file", "Missing variables.tf file", "Missing outputs.tf file" }

\* C6: a call that has ended has returned the outputs of the six validators
\* concatenated in their registration order.
C6_RegistrationOrder ==
    CallEnded =>
        /\ Returned
        /\ [k \in 1..Len(ran) |-> ran[k].name] = validators
        /\ result.Issues = Flatten([k \in 1..Len(ran) |-> ran[k].issues])

\* C7: during and after a call of ValidateConfiguration or SuggestImprovements
\* the caller's bundle has the file names and the texts it had when the call
\* started.
C7_BundleUntouched == Files = before

\* a SuggestImprovements call has ended on a bundle with files, after a
\* ValidateConfiguration call on it had ended
C7_Witness ==
    /\ DOMAIN Files # {}
    /\ last.op = "ValidateConfiguration"
    /\ op = "SuggestImprovements"
    /\ CallEnded

SecretText == "password = \"secret123\""

\* C8: when some file of the bundle contains the text password = "secret123",
\* the findings of a call that has ended include a security error whose
\* message contains password.
C8_SecretRecall ==
    (CallEnded /\ \E n \in DOMAIN Files : Contains(Files[n], SecretText)) =>
        \E k \in 1..Len(Findings) :
            /\ Findings[k].Severity = SeverityError
            /\ Findings[k].Category = CategorySecurity
            /\ Contains(Findings[k].Message, "password")

OpenCidr == "cidr_blocks = [\"0.0.0.0/0\"]"

\* C9: for every file, the findings of a call that has ended have as many
\* security warnings naming the file as the file has ingress blocks opening
\* cidr_blocks to 0.0.0.0/0.
C9_OpenIngress ==
    CallEnded =>
        \A n \in DOMAIN Files :
            LET isOpenIngress(issue) ==
                    /\ issue.Severity = SeverityWarning
                    /\ issue.Category = CategorySecurity
                    /\ issue.File = n
            IN  CountIssues(Findings, isOpenIngress) = Occurrences(Files[n], OpenCidr)

\* C10: for the bundle that has only main.tf with a resource block, a call
\* that has ended has returned warnings for the missing variables.tf and
\* outputs.tf, the structure aggregate, a finding for the missing README,
\* and no error.
C10_MainOnly ==
    (CallEnded /\ Files = [n \in {"main.tf"} |-> TfResource]) =>
        /\ Returned
        /\ MissingVariablesTF \in { result.Issues[k] : k \in 1..Len(result.Issues) }
        /\ MissingOutputsTF \in { result.Issues[k] : k \in 1..Len(result.Issues) }
        /\ MissingStandardFiles(Files) \in { result.Issues[k] : k \in 1..Len(result.Issues) }
        /\ \E k \in 1..Len(result.Issues) : Contains(result.Issues[k].Message, "README.md")
        /\ result.ErrorCount = 0

\* a SuggestImprovements call has ended, by a return or by a panic
SuggestEnded == CallEnded /\ op = "SuggestImprovements"

\* the set of the issues of the result
IssueSet == { result.Issues[k] : k \in 1..Len(result.Issues) }

\* C11: a SuggestImprovements call that has ended has returned a map that
\* has main.tf, variables.tf or outputs.tf exactly when the itemized finding
\* of the same bundle reports that file missing; for the empty bundle the map
\* has main.tf, variables.tf, outputs.tf and README.md, each with text.
C11_ScaffoldsMissing ==
    SuggestEnded =>
        /\ Returned
        /\ ("main.tf" \in DOMAIN improvements) <=> (MissingMainTF \in IssueSet)
        /\ ("variables.tf" \in DOMAIN improvements) <=> (MissingVariablesTF \in IssueSet)
        /\ ("outputs.tf" \in DOMAIN improvements) <=> (MissingOutputsTF \in IssueSet)
        /\ DOMAIN Files = {} =>
              /\ DOMAIN improvements = {"main.tf", "variables.tf", "outputs.tf", "README.md"}
              /\ \A n \in DOMAIN improvements : improvements[n] # ""

\* the bundle with the suggested texts merged in: a suggested text replaces
\* the file of its name or adds it
Merged ==
    [n \in DOMAIN Files \cup DOMAIN improvements |->
        IF n \in DOMAIN improvements THEN improvements[n] ELSE Files[n]]

\* the error findings of the validators on a bundle (their number does not
\* depend on the order of the iteration)
ErrorFindings(files) ==
    LET order == CHOOSE o \in Orders({ n \in DOMAIN files : HasSuffix(n, ".tf") }) : TRUE
        found == StructureValidate(files, order) \o NamingVariables(files, order)
                    \o NamingResources(files, order) \o SecurityCredentials(files, order)
    IN  Cardinality({ k \in 1..Len(found) : found[k].Severity = SeverityError })

\* C12: a SuggestImprovements call that has ended has returned a map, and
\* the bundle with that map merged in has no more error findings than the
\* bundle itself, also when a file of the bundle holds a hard-coded
\* credential.
C12_MergeNoMoreErrors ==
    SuggestEnded =>
        /\ Returned
        /\ ErrorFindings(Merged) <= ErrorFindings(Files)

\* the findings that SuggestImprovements turns into a comment of file n
Remedied(n) ==
    { k \in 1..Len(result.Issues) :
        /\ result.Issues[k].Severity \in {SeverityError, SeverityWarning}
        /\ result.Issues[k].File = n
        /\ result.Issues[k].Suggestion # "" }

\* the comment lines of the findings list[k], k in ks, the latest first
RECURSIVE TodoLines(_, _)
TodoLines(list, ks) ==
    IF ks = {} THEN ""
    ELSE LET k == CHOOSE m \in ks : \A j \in ks : j <= m
         IN  "// TODO: " \o list[k].Message \o "\n" \o TodoLines(list, ks \ {k})

\* C13: a SuggestImprovements call that has ended has returned a map in
\* which every key is a missing standard file or a file named by an error or
\* warning finding with a suggestion, and the text of a file of the bundle
\* that such findings name is one comment line per finding, the latest
\* first, followed by the text of the file in the bundle.
C13_OnlyRemediedFiles ==
    SuggestEnded =>
        /\ Returned
        /\ \A n \in DOMAIN improvements :
              n \in {"main.tf", "variables.tf", "outputs.tf", "README.md"} \ DOMAIN Files
                  \/ Remedied(n) # {}
        /\ \A n \in DOMAIN Files :
              Remedied(n) # {} =>
                  /\ n \in DOMAIN improvements
                  /\ improvements[n] = TodoLines(result.Issues, Remedied(n)) \o Files[n]

\* C14: a SuggestImprovements call on the complete module that has ended
\* has returned a map with at least one suggested file.
C14_CompleteModuleSuggestions ==
    (SuggestEnded /\ Files = CompleteModule) =>
        /\ Returned
        /\ DOMAIN improvements # {}

\* what a call on a bundle has collected when it ends, running alone: the
\* issues in its result and the issues its last validator holds
AloneOutcomes ==
    [b \in ConcBundles |->
        { [Issues |-> StructureValidate(b, o1) \o NamingVariables(b, o2)
                          \o NamingResources(b, o3),
           held |-> SecurityCredentials(b, o4)] :
            o1 \in RangeOrders[DOMAIN b], o2 \in RangeOrders[DOMAIN b],
            o3 \in RangeOrders[DOMAIN b], o4 \in RangeOrders[DOMAIN b] }]

IndexerWriting ==
    ipc \in {"indexer:practices", "indexer:structures", "indexer:save", "indexer:unlock"}

\* Initialize holds the lock of the pattern repository and writes its index
PatternsWriting ==
    ipc \in {"patterns:default", "patterns:load", "patterns:unlock"}

\* C16: while a reader is in the read section of the indexer or of the
\* pattern repository, Initialize is not in its write section on the same
\* index, and the index that the reader reads is not partly built: it is
\* the empty index from before the first Initialize or a complete one.
C16_SingleWriterManyReaders ==
    \A p \in DOMAIN spc :
        spc[p] = "inside" =>
            IF scall[p].fn \in indexerReads
            THEN /\ ~IndexerWriting
                 /\ DOMAIN resources \in { {}, DOMAIN DefaultResources }
            ELSE /\ ~PatternsWriting
                 /\ DOMAIN patterns \in { {}, PatternIDs }

\* two readers are in the read section of the initialized pattern
\* repository at the same time, while Initialize writes the index of the
\* indexer
C16_Witness ==
    /\ Cardinality(pmutex.readers) >= 2
    /\ \A p \in pmutex.readers : spc[p] = "inside"
    /\ patterns = AllPatterns
    /\ IndexerWriting

\* C17: HandleRequest is never left without a response, and its response
\* has the ID of the request, the error tool_not_found when no tool has the
\* name of the request, the error execution_error when Execute returns an
\* error, as it does for arguments that cannot be decoded, and the status
\* success with the result of the tool otherwise.
C17_AlwaysAnswers ==
    \A p \in DOMAIN spc :
        /\ spc[p] # "panicked"
        /\ spc[p] = "responded" =>
              /\ sresp[p].ID = sreq[p].ID
              /\ IF stool[p] = << >>
                 THEN sresp[p].Status = "error" /\ sresp[p].Code = "tool_not_found"
                 ELSE IF sreq[p].Arguments.json # "object" \/ sres[p].err
                 THEN sresp[p].Status = "error" /\ sresp[p].Code = "execution_error"
                 ELSE sresp[p].Status = "success" /\ sresp[p].Result = sres[p].items

\* C18: every GetBestPractices request that is sent to the initialized
\* server, whatever the other requests do at the same time, is answered,
\* with the status success.
C18_AllComplete ==
    \A p \in 1..MaxRequests :
        (spc[p] = "lookup") ~> (spc[p] = "responded" /\ sresp[p].Status = "success")

\* all the requests are in the read section of the indexer at the same time
C18_Witness ==
    /\ DOMAIN spc = 1..MaxRequests
    /\ \A p \in DOMAIN spc : spc[p] = "inside" /\ sreq[p].Tool = "GetBestPractices"
    /\ imutex.readers = 1..MaxRequests

Satisfies(pattern, filter) ==
    /\ filter.Category # << >> => pattern.Category = filter.Category[1]
    /\ filter.Provider # << >> => pattern.Provider = filter.Provider[1]
    /\ filter.Complexity # << >> => pattern.Complexity = filter.Complexity[1]
    /\ Len(filter.Tags) > 0 =>
          { ToLower(filter.Tags[i]) : i \in 1..Len(filter.Tags) }
              \cap { ToLower(pattern.Tags[j]) : j \in 1..Len(pattern.Tags) } # {}
    /\ filter.Query # "" =>
          \E text \in { pattern.Name, pattern.Description, pattern.ID } :
              Contains(ToLower(text), ToLower(filter.Query))

\* C20: FindPatterns returns no error and, each once, the stored patterns
\* that meet every criterion that the filter sets, which are all the stored
\* patterns for the empty filter.
C20_FindExactly ==
    \A p \in DOMAIN spc :
        (spc[p] = "read" /\ scall[p].fn = "FindPatterns") =>
            LET items == sres[p].items
                found == { items[k] : k \in 1..Len(items) }
            IN  /\ ~sres[p].err
                /\ found = { id \in DOMAIN patterns : Satisfies(patterns[id], scall[p].filter) }
                /\ Len(items) = Cardinality(found)
                /\ scall[p].filter = NoFilter => found = DOMAIN patterns

\* FindPatterns has returned some, not all, of the stored patterns for a
\* filter with a tag in capitals and a query in capitals
C20_Witness ==
    /\ spc[1] = "read" /\ scall[1].fn = "FindPatterns"
    /\ scall[1].filter.Tags = << "VPC" >> /\ scall[1].filter.Query = "BASIC"
    /\ Len(sres[1].items) >= 2
    /\ Len(sres[1].items) < Cardinality(DOMAIN patterns)

\* the key of a lookup by key is stored
Stored(call) ==
    IF call.fn = "GetPatternByID" THEN call.id \in DOMAIN patterns ELSE call.id \in DOMAIN resources

\* a lookup by key has returned to goroutine p
LookedUp(p) ==
    /\ spc[p] \in {"read", "responded"}
    /\ scall[p].fn \in {"GetPatternByID", "GetResource"}

AbsentRoles(files) ==
    SelectSeq(moduleFiles,
              LAMBDA file :
                  CASE file = "main.tf" -> ~hasMainTF(files)
                    [] file = "variables.tf" -> ~hasVariablesTF(files)
                    [] file = "outputs.tf" -> ~hasOutputsTF(files)
                    [] OTHER -> ~hasReadmeMD(files))

IsAggregate(issue) ==
    /\ issue.Severity = SeverityInfo /\ issue.Category = CategoryStructure
    /\ HasPrefix(issue.Message, "Module is missing standard files: ")

\* C22: the findings of StructureValidator have one Info aggregate, which
\* names the standard files that the itemized checks and the scaffolding
\* take as absent, when there is such a file, and no aggregate when there is
\* none.
C22_AggregateMatchesItemized ==
    Len(ran) >= 1 =>
        LET aggregates == SelectSeq(ran[1].issues, IsAggregate)
        IN  IF AbsentRoles(Files) = << >>
            THEN aggregates = << >>
            ELSE /\ Len(aggregates) = 1
                 /\ aggregates[1].Message =
                       "Module is missing standard files: " \o Join(AbsentRoles(Files), ", ")

\* the names of the blocks of a text that start with the keyword and a
\* quoted name
BlockNames(text, keyword) ==
    { Sub(text, SkipSpaces(text, i + Len(keyword)) + 1,
          QuotedEnd(text, SkipSpaces(text, i + Len(keyword))) - 2) :
        i \in { j \in 1..Len(text) :
                  /\ Sub(text, j, j + Len(keyword) - 1) = keyword
                  /\ SkipSpaces(text, j + Len(keyword)) > j + Len(keyword)
                  /\ QuotedEnd(text, SkipSpaces(text, j + Len(keyword))) # 0 } }

\* the resource types that cannot have tags
NoTagTypes == { "aws_iam_role_policy", "aws_iam_policy", "aws_route" }

VendorPrefixes == { "aws_", "azurerm_", "google_" }

\* C23: when a call has ended, its findings have, for every resource block
\* of a .tf file, one Info finding that the resource is missing tags when
\* the type has a vendor prefix, is not a type without tags and the block
\* (each text has one block) has no tags attribute, and none otherwise.
C23_MissingTags ==
    CallEnded =>
        \A n \in { f \in DOMAIN Files : HasSuffix(f, ".tf") } :
            \A k \in 1..Len(resMatches[Files[n]]) :
                LET resType == QuotedGroup(Files[n], resMatches[Files[n]][k].start, 1)
                    resName == QuotedGroup(Files[n], resMatches[Files[n]][k].start, 2)
                    isMissingTags(issue) ==
                        /\ issue.Severity = SeverityInfo
                        /\ issue.File = n
                        /\ issue.Message = "Resource '" \o resName \o "' of type '"
                                              \o resType \o "' is missing tags"
                IN  CountIssues(Findings, isMissingTags) =
                        IF /\ \E prefix \in VendorPrefixes : HasPrefix(resType, prefix)
                           /\ resType \notin NoTagTypes
                           /\ ~Contains(Files[n], "tags")
                        THEN 1 ELSE 0

\* C24: when a call has ended, its findings have, for every variable block
\* without description (each text has one block), one Documentation warning
\* that names the variable, for every output block without description one
\* Documentation info that names the output, and none for a block with a
\* description.
C24_MissingDescriptions ==
    CallEnded =>
        \A n \in DOMAIN Files :
            LET isFor(issue, severity, block) ==
                    /\ issue.Severity = severity
                    /\ issue.Category = CategoryDocumentation
                    /\ issue.File = n
                    /\ Contains(issue.Message, "'" \o block \o "'")
                expected == IF Contains(Files[n], "description") THEN 0 ELSE 1
            IN  /\ \A v \in BlockNames(Files[n], "variable") :
                      CountIssues(Findings, LAMBDA issue : isFor(issue, SeverityWarning, v))
                          = expected
                /\ \A o \in BlockNames(Files[n], "output") :
                      CountIssues(Findings, LAMBDA issue : isFor(issue, SeverityInfo, o))
                          = expected

\* C25: when a call has ended, its findings have, for every file whose name
\* contains variable, one Security warning for the file that sensitive
\* variables should be marked, when the file has a credential match and no
\* sensitive = true, and none otherwise.
C25_SensitiveVariables ==
    CallEnded =>
        \A n \in { f \in DOMAIN Files : Contains(ToLower(f), "variable") } :
            LET isUnmarked(issue) ==
                    /\ issue.Severity = SeverityWarning
                    /\ issue.Category = CategorySecurity
                    /\ issue.File = n
                    /\ Contains(issue.Message, "sensitive = true")
            IN  CountIssues(Findings, isUnmarked) =
                    IF /\ Occurrences(ToLower(Files[n]), "password = \"") > 0
                       /\ Occurrences(Files[n], "sensitive = true") = 0
                    THEN 1 ELSE 0

\* the number of lines of a text: a newline ends a line and does not start
\* another one at the end of the text
Lines(text) ==
    IF text = "" THEN 0
    ELSE Occurrences(text, "\n") + (IF HasSuffix(text, "\n") THEN 0 ELSE 1)

\* C26: when StructureValidator has run, its findings have one warning that
\* the file is too large for every .tf file of more than 500 lines, and none
\* for a file of 500 lines or fewer, with or without a newline at its end.
C26_LineLimit ==
    Len(ran) >= 1 =>
        \A n \in { f \in DOMAIN Files : HasSuffix(f, ".tf") } :
            LET isTooLarge(issue) ==
                    /\ issue.Severity = SeverityWarning
                    /\ issue.File = n
                    /\ Contains(issue.Message, "is too large")
            IN  CountIssues(ran[1].issues, isTooLarge) = (IF Lines(Files[n]) > 500 THEN 1 ELSE 0)

\* initializeDefaultDocs has returned: the workers and the closing goroutine
\* are done, each channel was closed once, the lock is free
FetchReturned ==
    /\ ipc \in {"patterns:lock", "fetch:failed"}
    /\ \A k \in DOMAIN wpc : wpc[k] = "done"
    /\ kpc = "done"
    /\ chans.bestPractices = 1 /\ chans.moduleStructures = 1 /\ chans.errCh = 1
    /\ ~imutex.writer

\* C27: initializeDefaultDocs, called with any number of sources, returns
\* with all its goroutines done, every channel closed once and never twice,
\* and the lock released; a reader that waits for the lock of the indexer
\* gets it.
C27_FetchTerminates ==
    /\ (ipc = "fetch:spawn") ~> FetchReturned
    /\ [](chans.bestPractices <= 1 /\ chans.moduleStructures <= 1 /\ chans.errCh <= 1)
    /\ \A p \in TheClient : (spc[p] = "rlock") ~> (spc[p] = "inside")

\* initializeDefaultDocs has returned with MaxSources workers, with the
\* default resources in the index, and a reader is in the read section of
\* the indexer
C27_Witness ==
    /\ FetchReturned
    /\ Len(wpc) = MaxSources
    /\ resources = DefaultResources
    /\ imutex.readers # {}

\* the declared severities and categories
Severities == {SeverityError, SeverityWarning, SeverityInfo}

Categories ==
    { CategoryStructure, CategoryNaming, CategorySecurity, CategoryPerformance,
      CategoryMaintenance, CategoryDocumentation }

C29_ValidationResponse ==
    \A p \in DOMAIN spc :
        ( /\ stool[p] # << >>
          /\ stool[p][1].name = "ValidateConfiguration"
          /\ sreq[p].Arguments.json = "object"
          /\ spc[p] \in {"panicked", "responded"} )
        => (spc[p] = "responded" /\ sresp[p].Status = "success")

\* the number of matches of the credential pattern in the files that
\* SecurityValidator scans
RECURSIVE CredentialMatches(_, _)
CredentialMatches(files, names) ==
    IF names = {} THEN 0
    ELSE LET n == CHOOSE m \in names : TRUE
         IN  (IF HasSuffix(n, ".tf") THEN Len(secretMatches[files[n]]) ELSE 0)
                 + CredentialMatches(files, names \ {n})

IsError(issue) == issue.Severity = SeverityError

\* the number of errors that the two rules give for a bundle
RuleErrors(files) ==
    (IF hasFile(files, "main.tf") THEN 0 ELSE 1) + CredentialMatches(files, DOMAIN files)

\* C30: a call that has ended has returned a result whose ErrorCount is 1
\* for an absent main.tf, else 0, plus the number of matches of the
\* credential pattern in the scanned files.
C30_ErrorCount ==
    CallEnded =>
        /\ Returned
        /\ result.ErrorCount = RuleErrors(Files)

\* the errors among the findings of a call that has ended are those of the
\* two rules
ErrorsFromTwoRules ==
    CallEnded => CountIssues(Findings, IsError) = RuleErrors(Files)

====
